---- MODULE Spec2Model ----
(***************************************************************************)
(* Model of the certificate engine of Go-Utils (src/crypto/x509.go):       *)
(* the default serial number generator and the CSR / certificate / CRL     *)
(* builders with their functional options.                                  *)
(*                                                                         *)
(* Two specifications share the variables:                                  *)
(*   SpecSerial  concurrent SerialNum() calls on the default generator      *)
(*   Spec        one builder call at a time, options applied in order       *)
(***************************************************************************)
EXTENDS Integers, Sequences, FiniteSets, TLC

(***************************************************************************)
(* Time.  A Go time.Duration is an int64 count of nanoseconds; the values   *)
(* that matter here do not fit TLC's integers, so a duration that is a      *)
(* whole number of milliseconds is kept in mixed radix as a record          *)
(* [d |-> days, ms |-> milliseconds of the day].  The value it stands for   *)
(* is d * MsPerDay + ms, so records are equal exactly when the durations    *)
(* are, and the order is the lexicographic one.                             *)
(***************************************************************************)
MsPerDay == 24 * 3600 * 1000

DurLess(a, b) == \/ a.d < b.d
                 \/ a.d = b.d /\ a.ms < b.ms

DurAddMs(a, k) == IF a.ms + k < MsPerDay
                  THEN [d |-> a.d, ms |-> a.ms + k]
                  ELSE [d |-> a.d + 1, ms |-> a.ms + k - MsPerDay]

\* math.MaxInt64 nanoseconds in whole milliseconds: 9223372036854 ms
\* = 106751 days + 85636854 ms.  time.Time.Sub returns this maximum
\* duration whenever the difference of the two instants exceeds it.
MaxDurationMs == [d |-> 106751, ms |-> 85636854]

\* The wall clock at process start, as the duration since Go's zero
\* time.Time{} (January 1, year 1 UTC): day 719162 is 1970-01-01 and
\* day 739923 is a day of 2026.
StartInstants == { [d |-> 719162, ms |-> 0], [d |-> 739923, ms |-> 86399999] }

VARIABLES
    now,        \* wall clock: duration since Go's zero time.Time{}
    n,          \* value held by the default generator's rotating counter
    ticks,      \* milliseconds the wall clock has advanced since process start
    inMs,       \* SerialNum() calls that drew a counter value in the current ms
    pc,         \* position of each concurrent SerialNum() caller
    t,          \* per caller: left operand of the sum, already evaluated
    at,         \* per caller: the wall clock when that operand was evaluated
    first,      \* the first serial number handed out, with its clock reading
    last,       \* the serial number handed out most recently, likewise
    nret,       \* how many serial numbers were handed out (0, 1, 2 = two or more)
    customN,    \* state of a caller-supplied serial number generator
    calls,      \* builder calls made so far
    res,        \* the builder call that has just returned, or None
    fn,         \* the call of a function without state that has returned, or None
    ctx,        \* context given to RunCMDWithEnv: "live" or "done"
    app,        \* the program RunCMDWithEnv was asked to run
    proc,       \* the subprocess: "none", "running", "exited", "killed"
    exitCode,   \* exit status of a subprocess that exited by itself
    kid,        \* a process the subprocess forked, which holds its output pipe
    piped,      \* chunks of output copied from the pipe so far
    cmdPc,      \* the RunCMDWithEnv call: "idle", "waiting", "returned"
    cmdRet,     \* what the call returned, or None
    cancelled,  \* the context was done while the subprocess was running
    kmsgSlots,  \* commit filter: the record kept for each partition, or None
    beforeChan, \* commit filter: messages given to CommitWithMsg, not yet filtered
    afterChan,  \* commit filter: messages handed on to the committer
    pool,       \* the messages given to KMsgPool.Put, in order
    ktime,      \* commit filter: the wall clock, in seconds since it started
    lastScanT,  \* commit filter: the local variable lastScanT
    dry,        \* the setting "dry"
    made,       \* how many messages were given to CommitWithMsg
    received,   \* the messages runFilterBeforeChan has taken, in order
    scan,       \* the last run of filterSlots2AfterChan, or None
    kctx,       \* context given to the kafka client: "live" or "done"
    closePc,    \* the Close() call: "idle", "sending", "closing", "returned"
    gor,        \* position of each goroutine of the kafka client
    cliClosed,  \* the cluster consumer was closed
    msgChan,    \* how many messages wait in the channel Messages() returned
    thCfg,      \* throttle: its ThrottleCfg, Max and NPerSec
    tokensChan, \* throttle: how many tokens tokensChan holds
    thPc,       \* throttle goroutine: "fill", "wait" or "exited"
    thI,        \* throttle goroutine: the loop variable i
    tickerC,    \* throttle: ticks waiting in ticker.C (at most one)
    thStopped,  \* throttle: stopChan was closed
    thCtx,      \* throttle: its context, "live" or "done"
    winTicks,   \* ticks the goroutine took since the count began
    winAllowed, \* calls of Allow() that returned true since the count began
    lastAllow,  \* the last call of Allow(): tokens before, after, and its result
    heldAtExit, \* tokens held when the goroutine exited, or None
    afterExit,  \* calls of Allow() that returned true since the goroutine exited
    csOrder,    \* CombineSortedChain: the sort order, "asc" or "desc"
    csGiven,    \* CombineSortedChain: what each input channel is to deliver
    csLeft,     \* what each input channel has yet to deliver
    csClosed,   \* the input channels their producers have closed
    csTodo,     \* the channels the first loop has yet to read
    csActive,   \* the keys of activeChans
    csHeap,     \* the items in the priority queue
    csCur,      \* the item popped and being sent, or None
    csPc,       \* the merging goroutine: "first", "send", "recv", "drain", "closed"
    csI,        \* the loop variable i of the last loop
    csOut,      \* the values received from the result channel, in order
    sigClose,   \* opt.closeSignals of StopSignal
    sigNotified, \* the signals signal.Notify relays to c
    sigC,       \* c, the channel of signals, of capacity 1
    sigStop,    \* the stop channel: "open" or "closed"
    sigPc,      \* the goroutine of StopSignal: "wait", "close" or "done"
    sigProc,    \* the program: "running", "killed" by a signal, or "exit1"
    sigGot,     \* the close signals the program has received
    sigSent,    \* the signals sent to the program
    jfDir,      \* the names of the files in the buffer directory
    jfOld,      \* oldFileStat, the BufFileStat given to PrepareNewBufFile
    jfNow,      \* utils.UTCNow(), as a day
    jfRet,      \* ret, the BufFileStat of the call, or None before it
    jfErr,      \* the error returned by the call
    jfNext,     \* nextDataFName and nextIDsFName
    jfPc,       \* PrepareNewBufFile: "call", "spawned" or "returned"
    jfGo,       \* its goroutine: "off", "data", "ids" or "done"
    jfSeen,     \* the BufFileStat as it was when the call returned
    r2Script,   \* the lines the subprocess writes to stdout and to stderr
    r2Sent,     \* the lines it has written to each
    r2Pipe,     \* the lines in each pipe that were not read
    r2Buf,      \* the lines each scanner has read and not yet returned
    r2Handled,  \* the lines passed to each handler
    r2Proc,     \* the subprocess: "none", "running", "exited" or "killed"
    r2Closed,   \* Wait has closed the read ends of the pipes
    r2Reader,   \* the goroutine of each pipe: "off", "scan" or "done"
    r2Pc,       \* RunCMD2: "start", "wait" or "returned"
    r2Late      \* the handler calls made after RunCMD2 returned

\* The state of the certificate builders and the serial number generator.
x509Vars == <<now, ticks, n, inMs, pc, t, at, first, last, nret, customN, calls, res>>

\* The call of a function without state.
fnVars == <<fn>>

\* The state of a RunCMDWithEnv call and of what it runs.
cmdVars == <<ctx, app, proc, exitCode, kid, piped, cmdPc, cmdRet, cancelled>>

\* The state of the commit filter.
filterVars == <<kmsgSlots, beforeChan, afterChan, pool, ktime, lastScanT, dry,
                made, received, scan>>

\* The state of the kafka client and its goroutines.
cliVars == <<kctx, closePc, gor, cliClosed, msgChan>>

\* The state of a throttle and its goroutine.
throttleVars == <<thCfg, tokensChan, thPc, thI, tickerC, thStopped, thCtx,
                  winTicks, winAllowed, lastAllow, heldAtExit, afterExit>>

\* The state of a CombineSortedChain call, its producers and its consumer.
chainVars == <<csOrder, csGiven, csLeft, csClosed, csTodo, csActive, csHeap,
               csCur, csPc, csI, csOut>>

\* StopSignal: its options, its channels and goroutine, and the program.
signalVars == <<sigClose, sigNotified, sigC, sigStop, sigPc, sigProc,
                sigGot, sigSent>>

\* PrepareNewBufFile: the directory, the call and its goroutine.
journalVars == <<jfDir, jfOld, jfNow, jfRet, jfErr, jfNext, jfPc, jfGo,
                 jfSeen>>

\* RunCMD2: the subprocess, its pipes, the scanning goroutines and the call.
cmd2Vars == <<r2Script, r2Sent, r2Pipe, r2Buf, r2Handled, r2Proc, r2Closed,
              r2Reader, r2Pc, r2Late>>

\* The state outside one part of the program.
others == <<fnVars, cmdVars, filterVars, cliVars, throttleVars, chainVars, signalVars, journalVars, cmd2Vars>>
notFn == <<x509Vars, cmdVars, filterVars, cliVars, throttleVars, chainVars, signalVars, journalVars, cmd2Vars>>
notCmd == <<x509Vars, fnVars, filterVars, cliVars, throttleVars, chainVars, signalVars, journalVars, cmd2Vars>>
notFilter == <<x509Vars, fnVars, cmdVars, cliVars, throttleVars, chainVars, signalVars, journalVars, cmd2Vars>>
notCli == <<x509Vars, fnVars, cmdVars, filterVars, throttleVars, chainVars, signalVars, journalVars, cmd2Vars>>
notKafka == <<x509Vars, fnVars, cmdVars, throttleVars, chainVars, signalVars, journalVars, cmd2Vars>>
notThrottle == <<x509Vars, fnVars, cmdVars, filterVars, cliVars, chainVars, signalVars, journalVars, cmd2Vars>>
notChain == <<x509Vars, fnVars, cmdVars, filterVars, cliVars, throttleVars, signalVars, journalVars, cmd2Vars>>
notSignal == <<x509Vars, fnVars, cmdVars, filterVars, cliVars, throttleVars, chainVars, journalVars, cmd2Vars>>
notJournal == <<x509Vars, fnVars, cmdVars, filterVars, cliVars, throttleVars, chainVars, signalVars, cmd2Vars>>
notCmd2 == <<x509Vars, fnVars, cmdVars, filterVars, cliVars, throttleVars, chainVars, signalVars, journalVars>>

vars == <<x509Vars, fnVars, cmdVars, filterVars, cliVars, throttleVars, chainVars, signalVars, journalVars, cmd2Vars>>

None == [none |-> TRUE]

\* No function without state was called.
FnOff == fn = None

\* RunCMDWithEnv was not called.
CmdOff ==
    /\ ctx = "live"
    /\ app = None
    /\ proc = "none"
    /\ exitCode = 0
    /\ kid = "none"
    /\ piped = 0
    /\ cmdPc = "idle"
    /\ cmdRet = None
    /\ cancelled = FALSE

\* The partitions of the topic.
Partitions == {0, 1}

\* The commit filter has received nothing.
FilterOff ==
    /\ kmsgSlots = [p \in Partitions |-> None]
    /\ beforeChan = <<>>
    /\ afterChan = <<>>
    /\ pool = <<>>
    /\ ktime = 0
    /\ lastScanT = 0
    /\ dry = FALSE
    /\ made = 0
    /\ received = <<>>
    /\ scan = None

\* The goroutines of a kafka client: the two NewKafkaCliWithGroupId starts,
\* and one for each call of Messages().
Goroutines == {"ListenNotifications", "runCommitor", "Messages1", "Messages2"}

\* No kafka client was made.
CliOff ==
    /\ kctx = "live"
    /\ closePc = "idle"
    /\ gor = [g \in Goroutines |-> "unstarted"]
    /\ cliClosed = FALSE
    /\ msgChan = 0

KafkaOff == FilterOff /\ CliOff

\* No throttle was made.
ThrottleOff ==
    /\ thCfg = None
    /\ tokensChan = 0
    /\ thPc = "exited"
    /\ thI = 0
    /\ tickerC = 0
    /\ thStopped = FALSE
    /\ thCtx = "live"
    /\ winTicks = 0
    /\ winAllowed = 0
    /\ lastAllow = None
    /\ heldAtExit = None
    /\ afterExit = 0

\* CombineSortedChain was not called.
ChainOff ==
    /\ csOrder = "asc"
    /\ csGiven = <<>>
    /\ csLeft = <<>>
    /\ csClosed = {}
    /\ csTodo = {}
    /\ csActive = {}
    /\ csHeap = <<>>
    /\ csCur = None
    /\ csPc = "closed"
    /\ csI = 0
    /\ csOut = <<>>

\* StopSignal was not called.
SignalOff ==
    /\ sigClose = {}
    /\ sigNotified = {}
    /\ sigC = <<>>
    /\ sigStop = "open"
    /\ sigPc = "done"
    /\ sigProc = "killed"
    /\ sigGot = 0
    /\ sigSent = 0

\* PrepareNewBufFile is not called.
JournalOff ==
    /\ jfDir = {}
    /\ jfOld = None
    /\ jfNow = 0
    /\ jfRet = None
    /\ jfErr = None
    /\ jfNext = None
    /\ jfPc = "returned"
    /\ jfGo = "off"
    /\ jfSeen = None

\* RunCMD2 is not called.
Cmd2Off ==
    /\ r2Script = None
    /\ r2Sent = None
    /\ r2Pipe = None
    /\ r2Buf = None
    /\ r2Handled = None
    /\ r2Proc = "none"
    /\ r2Closed = FALSE
    /\ r2Reader = None
    /\ r2Pc = "returned"
    /\ r2Late = 0

\* Nothing outside the builders and the generator has happened.
OthersOff == FnOff /\ CmdOff /\ KafkaOff /\ ThrottleOff /\ ChainOff /\ SignalOff /\ JournalOff /\ Cmd2Off

(***************************************************************************)
(* Serial number generator                                                  *)
(***************************************************************************)
\* gcounter.NewRotateCounter(10000)
RotateBound == 10000

\* SerialNum() calls per millisecond of the load put on the generator in
\* SpecSerial: the clock is one millisecond further after every MaxPerMs
\* calls, so the counter never completes a rotation within one millisecond.
MaxPerMs == 5000

\* Milliseconds of wall-clock time a run of SpecSerial covers after the first.
MaxTicks == 2

Callers == {1, 2}

\* A serial number v is kept as [d, ms, c] with c < RotateBound and stands
\* for (d * MsPerDay + ms) * 10000 + c.  The largest one the generator can
\* produce, 9223372036854 * 10000 + 9999, is below 2^63: the
\* int64 arithmetic of SerialNum never wraps.
SerialLess(a, b) == \/ DurLess(a, b)
                    \/ a.d = b.d /\ a.ms = b.ms /\ a.c < b.c

\* time.Since(time.Time{}): Now().Sub(zero time), saturating at the
\* maximum Duration.
SinceZeroTime(clock) ==
    IF DurLess(MaxDurationMs, clock) THEN MaxDurationMs ELSE clock

\* RotateCounter.Count(): the counter cycles through [0, bound); one atomic
\* step that advances it and returns the new value.
CountNext(c) == (c + 1) % RotateBound

\* int64(time.Since(time.Time{})/time.Millisecond*10000) + g.counter.Count()
SerialValue(dur, c) == [d |-> dur.d, ms |-> dur.ms, c |-> c]

\* SerialNum, first half: the left operand of the sum is evaluated.
SerialRead(p) ==
    /\ pc[p] = "idle"
    /\ inMs < MaxPerMs
    /\ pc' = [pc EXCEPT ![p] = "count"]
    /\ t' = [t EXCEPT ![p] = SinceZeroTime(now)]
    /\ at' = [at EXCEPT ![p] = now]
    /\ UNCHANGED <<now, ticks, n, inMs, first, last, nret, customN, calls, res>>
    /\ UNCHANGED others

\* SerialNum, second half: Count() and the return of the sum.
SerialCount(p) ==
    /\ pc[p] = "count"
    /\ inMs < MaxPerMs
    /\ LET c == CountNext(n)
           v == [val |-> SerialValue(t[p], c), at |-> at[p], c |-> c]
       IN /\ n' = c
          /\ last' = v
          /\ first' = IF nret = 0 THEN v ELSE first
    /\ nret' = IF nret < 2 THEN nret + 1 ELSE nret
    /\ inMs' = inMs + 1
    /\ pc' = [pc EXCEPT ![p] = "idle"]
    /\ UNCHANGED <<now, ticks, t, at, customN, calls, res>>
    /\ UNCHANGED others

\* The wall clock reaches the next millisecond.
Tick ==
    /\ inMs = MaxPerMs
    /\ ticks < MaxTicks
    /\ now' = DurAddMs(now, 1)
    /\ ticks' = ticks + 1
    /\ inMs' = 0
    /\ UNCHANGED <<n, pc, t, at, first, last, nret, customN, calls, res>>
    /\ UNCHANGED others

InitSerial ==
    /\ now \in StartInstants
    /\ ticks = 0
    /\ n = 0
    /\ inMs = 0
    /\ pc = [p \in Callers |-> "idle"]
    /\ t = [p \in Callers |-> None]
    /\ at = [p \in Callers |-> None]
    /\ first = None
    /\ last = None
    /\ nret = 0
    /\ customN = 0
    /\ calls = 0
    /\ res = None
    /\ OthersOff

NextSerial ==
    \/ \E p \in Callers : SerialRead(p)
    \/ \E p \in Callers : SerialCount(p)
    \/ Tick

SpecSerial == InitSerial /\ [][NextSerial]_vars

(***************************************************************************)
(* Values shared by the builders                                            *)
(***************************************************************************)
\* Go's nil (pointer, interface, slice of bytes, error).
Nil == [nil |-> TRUE]

\* Only({ e(x) : x \in {v} }) is e(v) with v evaluated once: the value of a
\* local variable of the code.
Only(S) == CHOOSE x \in S : TRUE

Err(msg) == [err |-> msg]

\* errors.Wrap(err, msg): nil stays nil.
Wrap(err, msg) == IF err = Nil THEN Nil ELSE [err |-> msg, cause |-> err]

\* Private keys a caller can hand in: one per supported family, and one
\* value of a type that implements no crypto.Signer known to the package.
RSAKey == [alg |-> "rsa", id |-> 1]
ECDSAKey == [alg |-> "ecdsa", id |-> 2]
Ed25519Key == [alg |-> "ed25519", id |-> 3]
OtherKey == [alg |-> "other", id |-> 4]
PriKeys == {RSAKey, ECDSAKey, Ed25519Key, OtherKey}

\* GetPubkeyFromPrikey: the public half of a private key.
GetPubkeyFromPrikey(prikey) == [pubalg |-> prikey.alg, pubid |-> prikey.id]

\* Pubkey2Der: the DER bytes of a public key, one distinct byte string per
\* key; a value of no known public key type cannot be marshalled.
Pubkey2Der(pubkey) ==
    IF pubkey.pubalg = "other"
    THEN [der |-> Nil, err |-> Err("marshal public key")]
    ELSE [der |-> <<48, pubkey.pubid>>, err |-> Nil]

\* Privkey2Signer
Privkey2Signer(privkey) ==
    CASE privkey.alg = "rsa" -> privkey
      [] privkey.alg = "ecdsa" -> privkey
      [] privkey.alg = "ed25519" -> privkey
      [] OTHER -> Nil

ValidPrikeyAcceptAll(prikey) == Nil

\* validPrikey
ValidPrikey(prikey) ==
    IF Privkey2Signer(prikey) = Nil
    THEN Err("not support this type of private key")
    ELSE Nil

\* hash.Hash of crypto/sha1: the state is the bytes written so far.
\* Sum(b) appends the digest of the bytes written to b and returns that;
\* it writes nothing into the hash (src/utils_test.go Test_Sum).
HasherNew == <<>>
HasherWrite(h, b) == h \o b
Digest(written) == [sha1 |-> written]
HasherSum(h, b) == [prefix |-> b, digest |-> Digest(h)]

\* X509CertSubjectKeyID
X509CertSubjectKeyID(pubkey) ==
    LET hasher == HasherNew
        dropped == HasherSum(hasher, Pubkey2Der(pubkey).der)
    IN IF Pubkey2Der(pubkey).err # Nil
       THEN [id |-> Nil, err |-> Wrap(Pubkey2Der(pubkey).err, "marshal pubkeu")]
       ELSE [id |-> HasherSum(hasher, <<>>).digest, err |-> Nil]

\* x509.KeyUsage: a bit set, kept as the set of the names of its bits.
KeyUsageBits == {"DigitalSignature", "ContentCommitment", "KeyEncipherment",
                 "DataEncipherment", "KeyAgreement", "CertSign", "CRLSign",
                 "EncipherOnly", "DecipherOnly"}

\* x509.SignatureAlgorithm values used here, and the key family each needs.
SigAlgUnknown == "UnknownSignatureAlgorithm"
SigAlgFamily(sigAlg) ==
    CASE sigAlg = "SHA256WithRSA" -> "rsa"
      [] sigAlg = "ECDSAWithSHA256" -> "ecdsa"
      [] sigAlg = "PureEd25519" -> "ed25519"
      [] OTHER -> "any"

\* The signing primitives of crypto/x509 reject a key that is no signer and
\* a requested signature algorithm of another key family.
SignRefused(sigAlg, prikey) ==
    \/ Privkey2Signer(prikey) = Nil
    \/ SigAlgFamily(sigAlg) \notin {"any", prikey.alg}

\* pkix.Name
EmptyName == [CommonName |-> "", SerialNumber |-> "",
              Organization |-> <<>>, OrganizationalUnit |-> <<>>,
              Locality |-> <<>>, Country |-> <<>>, Province |-> <<>>,
              StreetAddress |-> <<>>, PostalCode |-> <<>>]

(***************************************************************************)
(* CSR builder                                                              *)
(***************************************************************************)
\* new(x509CSROption)
X509CSROptionZero ==
    [err |-> Nil, subject |-> EmptyName,
     dnsNames |-> <<>>, emailAddresses |-> <<>>, ipAddresses |-> <<>>, uris |-> <<>>,
     signatureAlgorithm |-> SigAlgUnknown, publicKeyAlgorithm |-> "UnknownPublicKeyAlgorithm"]

(***************************************************************************)
(* SAN classifier.  The strings it is given are the ones of SanSamples;     *)
(* the three parsers of the standard library are given by what they return  *)
(* for these strings.                                                       *)
(***************************************************************************)
SanSamples == {"10.0.0.1", "::1", "a@example.com", "Bob <bob@example.com>",
               "https://example.com/x", "/etc/x", "example.com", "*.example.com"}

\* net.ParseIP: the address for dotted IPv4 and for IPv6 text, else nil.
NetParseIP(s) ==
    CASE s = "10.0.0.1" -> [ip |-> <<10, 0, 0, 1>>]
      [] s = "::1" -> [ip |-> <<0, 0, 0, 0, 0, 0, 0, 1>>]
      [] OTHER -> Nil

\* mail.ParseAddress: an RFC 5322 address, with or without a display name.
MailParseAddress(s) ==
    CASE s = "a@example.com" ->
            [email |-> [Name |-> "", Address |-> "a@example.com"], err |-> Nil]
      [] s = "Bob <bob@example.com>" ->
            [email |-> [Name |-> "Bob", Address |-> "bob@example.com"], err |-> Nil]
      [] OTHER -> [email |-> Nil, err |-> Err("mail: missing '@' or angle-addr")]

\* url.ParseRequestURI: an absolute URI or an absolute path (a text that
\* begins with "/"); anything else is an error.
UrlParseRequestURI(s) ==
    CASE s = "https://example.com/x" ->
            [uri |-> [Scheme |-> "https", Host |-> "example.com", Path |-> "/x"],
             err |-> Nil]
      [] s = "/etc/x" ->
            [uri |-> [Scheme |-> "", Host |-> "", Path |-> "/etc/x"], err |-> Nil]
      [] OTHER -> [uri |-> Nil, err |-> Err("invalid URI for request")]

\* sansTemp
SansTempZero ==
    [DNSNames |-> <<>>, EmailAddresses |-> <<>>, IPAddresses |-> <<>>, URIs |-> <<>>]

RECURSIVE ParseSansFrom(_, _, _)
\* parseSans: the loop from index i on, tpl holding what it has so far.
ParseSansFrom(sans, i, tpl) ==
    IF i > Len(sans) THEN tpl
    ELSE ParseSansFrom(sans, i + 1,
            IF NetParseIP(sans[i]) # Nil
            THEN [tpl EXCEPT !.IPAddresses = Append(@, NetParseIP(sans[i]))]
            ELSE IF MailParseAddress(sans[i]).err = Nil
                    /\ MailParseAddress(sans[i]).email # Nil
            THEN [tpl EXCEPT !.EmailAddresses =
                                Append(@, MailParseAddress(sans[i]).email.Address)]
            ELSE IF UrlParseRequestURI(sans[i]).err = Nil
                    /\ UrlParseRequestURI(sans[i]).uri # Nil
            THEN [tpl EXCEPT !.URIs = Append(@, UrlParseRequestURI(sans[i]).uri)]
            ELSE [tpl EXCEPT !.DNSNames = Append(@, sans[i])])

\* parseSans
ParseSans(sans) == ParseSansFrom(sans, 1, SansTempZero)

\* WithX509CSRSANS, WithX509CertSANS: the closure appends the four buckets.
AppendSans(o, sans) ==
    [o EXCEPT !.dnsNames = @ \o ParseSans(sans).DNSNames,
              !.emailAddresses = @ \o ParseSans(sans).EmailAddresses,
              !.uris = @ \o ParseSans(sans).URIs,
              !.ipAddresses = @ \o ParseSans(sans).IPAddresses]

\* An option is a record [k |-> constructor, v |-> argument]; applying it
\* gives the changed option struct and the error the closure returns.
Applied(o) == [o |-> o, err |-> Nil]
Rejected(o, msg) == [o |-> o, err |-> Err(msg)]

SubjectSet(o, field, value) ==
    [o EXCEPT !.subject = [o.subject EXCEPT ![field] = value]]
SubjectAppend(o, field, values) ==
    [o EXCEPT !.subject = [o.subject EXCEPT ![field] = o.subject[field] \o values]]

\* The closures returned by the WithX509CSR... constructors.
ApplyCSROpt(o, opt) ==
    CASE opt.k = "SignatureAlgorithm" -> Applied([o EXCEPT !.signatureAlgorithm = opt.v])
      [] opt.k = "PublicKeyAlgorithm" -> Applied([o EXCEPT !.publicKeyAlgorithm = opt.v])
      [] opt.k = "Subject" -> Applied([o EXCEPT !.subject = opt.v])
      [] opt.k = "CommonName" -> Applied(SubjectSet(o, "CommonName", opt.v))
      [] opt.k = "Organization" -> Applied(SubjectAppend(o, "Organization", opt.v))
      [] opt.k = "OrganizationUnit" -> Applied(SubjectAppend(o, "OrganizationalUnit", opt.v))
      [] opt.k = "Locality" -> Applied(SubjectAppend(o, "Locality", opt.v))
      [] opt.k = "Country" -> Applied(SubjectAppend(o, "Country", opt.v))
      [] opt.k = "Province" -> Applied(SubjectAppend(o, "Province", opt.v))
      [] opt.k = "StreetAddrs" -> Applied(SubjectAppend(o, "StreetAddress", opt.v))
      [] opt.k = "PostalCode" -> Applied(SubjectAppend(o, "PostalCode", opt.v))
      [] opt.k = "DNSNames" -> Applied([o EXCEPT !.dnsNames = @ \o opt.v])
      [] opt.k = "EmailAddrs" -> Applied([o EXCEPT !.emailAddresses = @ \o opt.v])
      [] opt.k = "IPAddrs" -> Applied([o EXCEPT !.ipAddresses = @ \o opt.v])
      [] opt.k = "URIs" -> Applied([o EXCEPT !.uris = @ \o opt.v])
      [] opt.k = "SANS" -> Applied(AppendSans(o, opt.v))

\* x509CSROption.applyOpts: the options in order, stopping at the first
\* error; applied counts the closures that were called.
RECURSIVE CSRApplyFrom(_, _, _)
CSRApplyFrom(o, opts, i) ==
    IF i > Len(opts) THEN [o |-> o, err |-> Nil, applied |-> Len(opts)]
    ELSE LET r == ApplyCSROpt(o, opts[i])
         IN IF r.err # Nil THEN [o |-> Nil, err |-> r.err, applied |-> i]
            ELSE CSRApplyFrom(r.o, opts, i + 1)

CSRApplyOpts(o, opts) ==
    IF o.err # Nil THEN [o |-> Nil, err |-> o.err, applied |-> 0]
    ELSE CSRApplyFrom(o, opts, 1)

\* What a builder call leaves behind: its return values and what it did.
\*   outcome  "ok", "error" (a non-nil error was returned) or "panic"
\*   der      the DER returned, or Nil
\*   applied  option closures called
\*   draws    SerialNum() calls made, per generator
\*   signs    calls of a signing primitive of crypto/x509
\*   n, customN   the generators' state after the call
Effects(n0, customN0) ==
    [applied |-> 0, drawsDefault |-> 0, drawsCustom |-> 0, signs |-> 0,
     n |-> n0, customN |-> customN0]

Returns(outcome, err, der, tpl, eff) ==
    [outcome |-> outcome, err |-> err, der |-> der, tpl |-> tpl, eff |-> eff]

\* x509.CreateCertificateRequest
CreateCertificateRequest(tpl, prikey) ==
    IF SignRefused(tpl.SignatureAlgorithm, prikey)
    THEN [der |-> Nil, err |-> Err("x509: cannot sign certificate request")]
    ELSE [der |-> [kind |-> "csr",
                   Subject |-> tpl.Subject,
                   DNSNames |-> tpl.DNSNames,
                   EmailAddresses |-> tpl.EmailAddresses,
                   IPAddresses |-> tpl.IPAddresses,
                   URIs |-> tpl.URIs,
                   PublicKey |-> GetPubkeyFromPrikey(prikey),
                   signedBy |-> prikey.id],
          err |-> Nil]

\* NewX509CSR
NewX509CSR(prikey, opts, eff) ==
    IF ValidPrikey(prikey) # Nil
    THEN Returns("error", ValidPrikey(prikey), Nil, Nil, eff)
    ELSE Only({
       IF a.err # Nil
       THEN Returns("error", Wrap(a.err, "apply options"), Nil, Nil,
                    [eff EXCEPT !.applied = @ + a.applied])
       ELSE Only({
          Only({
             IF c.err # Nil
             THEN Returns("error", Wrap(c.err, "create certificate"), Nil, csrTpl,
                          [eff EXCEPT !.applied = @ + a.applied, !.signs = @ + 1])
             ELSE Returns("ok", Nil, c.der, csrTpl,
                          [eff EXCEPT !.applied = @ + a.applied, !.signs = @ + 1])
             : c \in {CreateCertificateRequest(csrTpl, prikey)} })
          : csrTpl \in {[SignatureAlgorithm |-> a.o.signatureAlgorithm,
                         PublicKeyAlgorithm |-> a.o.publicKeyAlgorithm,
                         Subject |-> a.o.subject,
                         EmailAddresses |-> a.o.emailAddresses,
                         DNSNames |-> a.o.dnsNames,
                         IPAddresses |-> a.o.ipAddresses,
                         URIs |-> a.o.uris]} })
       : a \in {CSRApplyOpts(X509CSROptionZero, opts)} })

(***************************************************************************)
(* Certificate builder                                                      *)
(***************************************************************************)
\* X509CertSerialNumberGenerator values: the process-wide default one
\* (internalCertSerialNumGenerator) and one supplied by the caller.
DefaultGen == [gen |-> "default"]
CustomGen == [gen |-> "custom"]

\* big.NewInt(v) for a small v, in the representation of serial numbers.
BigInt(v) == [d |-> 0, ms |-> 0, c |-> v]

\* DefaultX509CertSerialNumGenerator.SerialNum in one step (one caller).
DefaultSerialNum(clock, c) == SerialValue(SinceZeroTime(clock), CountNext(c))

\* The caller's generator: counts up from 101.
CustomSerialNum(c) == BigInt(101 + c)

\* o.serialNumGenerator.SerialNum(): a method call on a nil interface
\* panics.
CallSerialNum(gen, clock, eff) ==
    CASE gen = Nil -> [panic |-> TRUE, v |-> Nil, eff |-> eff]
      [] gen = DefaultGen ->
            [panic |-> FALSE, v |-> DefaultSerialNum(clock, eff.n),
             eff |-> [eff EXCEPT !.n = CountNext(@), !.drawsDefault = @ + 1]]
      [] gen = CustomGen ->
            [panic |-> FALSE, v |-> CustomSerialNum(eff.customN),
             eff |-> [eff EXCEPT !.customN = @ + 1, !.drawsCustom = @ + 1]]

SevenDays == [d |-> 7, ms |-> 0]

DurAdd(a, b) == LET r == DurAddMs([d |-> a.d + b.d, ms |-> a.ms], b.ms) IN r

KeyUsageDefault == {"KeyEncipherment", "DigitalSignature"}

\* new(signCSROption).fillDefault()
SignCSROptionDefault(clock) ==
    [validFrom |-> clock, validFor |-> SevenDays, isCA |-> FALSE,
     keyUsage |-> KeyUsageDefault, extKeyUsage |-> <<>>,
     serialNumber |-> Nil, policies |-> <<>>, crls |-> <<>>, ocsps |-> <<>>,
     pubkey |-> Nil, serialNumGenerator |-> DefaultGen]

\* new(x509V3CertOption).fillDefault(): parent, and the embedded
\* signCSROption and x509CSROption.
X509V3CertOptionDefault(clock) ==
    [f \in {"parent"} |-> Nil] @@ SignCSROptionDefault(clock) @@ X509CSROptionZero

RECURSIVE OrAll(_, _)
\* for i := range usage { o.keyUsage |= usage[i] }
OrAll(keyUsage, usage) ==
    IF usage = <<>> THEN keyUsage
    ELSE OrAll(keyUsage \cup Head(usage), Tail(usage))

KeyUsageReplace(keyUsage, usage) ==
    IF usage = <<>> THEN keyUsage ELSE usage[Len(usage)]

\* WithX509CertKeyUsage and WithX509SignCSRKeyUsage: usage is the list of
\* the x509.KeyUsage arguments, each a set of bits.
AddKeyUsage(keyUsage, usage) == OrAll(keyUsage, usage)

\* WithX509CertIsCA, WithX509SignCSRIsCA
IsCABits == {"CertSign", "CRLSign"}

\* WithX509CertIsCRLCA, WithX509SignCSRIsCRLCA
IsCRLCABits == {"CRLSign"}

SetCommonNameKeepFirst(o, commonName) ==
    IF o.subject.CommonName = "" THEN SubjectSet(o, "CommonName", commonName) ELSE o

\* WithX509CertCommonName
SetCommonName(o, commonName) == SubjectSet(o, "CommonName", commonName)

\* WithX509CertOrganization
SetOrganization(o, organization) == SubjectAppend(o, "Organization", organization)

\* The closures returned by the WithX509Cert... constructors.
ApplyCertOpt(o, opt) ==
    CASE opt.k = "Parent" -> Applied([o EXCEPT !.parent = opt.v])
      [] opt.k = "Policies" -> Applied([o EXCEPT !.policies = @ \o opt.v])
      [] opt.k = "OCSPServers" -> Applied([o EXCEPT !.ocsps = @ \o opt.v])
      [] opt.k = "SeriaNumber" ->
            IF opt.v = Nil THEN Rejected(o, "serial number shoule not be empty")
            ELSE Applied([o EXCEPT !.serialNumber = opt.v])
      [] opt.k = "SerialNumGenerator" ->
            IF opt.v = Nil THEN Rejected(o, "serial number generator shoule not be empty")
            ELSE Applied([o EXCEPT !.serialNumGenerator = opt.v])
      [] opt.k = "KeyUsage" -> Applied([o EXCEPT !.keyUsage = AddKeyUsage(@, opt.v)])
      [] opt.k = "CRLs" -> Applied([o EXCEPT !.crls = @ \o opt.v])
      [] opt.k = "ExtKeyUsage" -> Applied([o EXCEPT !.extKeyUsage = @ \o opt.v])
      [] opt.k = "SignatureAlgorithm" -> Applied([o EXCEPT !.signatureAlgorithm = opt.v])
      [] opt.k = "PublicKeyAlgorithm" -> Applied([o EXCEPT !.publicKeyAlgorithm = opt.v])
      [] opt.k = "Subject" -> Applied([o EXCEPT !.subject = opt.v])
      [] opt.k = "CommonName" -> Applied(SetCommonName(o, opt.v))
      [] opt.k = "Organization" -> Applied(SetOrganization(o, opt.v))
      [] opt.k = "OrganizationUnit" -> Applied(SubjectAppend(o, "OrganizationalUnit", opt.v))
      [] opt.k = "Locality" -> Applied(SubjectAppend(o, "Locality", opt.v))
      [] opt.k = "Country" -> Applied(SubjectAppend(o, "Country", opt.v))
      [] opt.k = "Province" -> Applied(SubjectAppend(o, "Province", opt.v))
      [] opt.k = "StreetAddrs" -> Applied(SubjectAppend(o, "StreetAddress", opt.v))
      [] opt.k = "PostalCode" -> Applied(SubjectAppend(o, "PostalCode", opt.v))
      [] opt.k = "DNSNames" -> Applied([o EXCEPT !.dnsNames = @ \o opt.v])
      [] opt.k = "EmailAddrs" -> Applied([o EXCEPT !.emailAddresses = @ \o opt.v])
      [] opt.k = "IPAddrs" -> Applied([o EXCEPT !.ipAddresses = @ \o opt.v])
      [] opt.k = "URIs" -> Applied([o EXCEPT !.uris = @ \o opt.v])
      [] opt.k = "SANS" -> Applied(AppendSans(o, opt.v))
      [] opt.k = "ValidFrom" -> Applied([o EXCEPT !.validFrom = opt.v])
      [] opt.k = "ValidFor" -> Applied([o EXCEPT !.validFor = opt.v])
      [] opt.k = "IsCA" ->
            Applied([o EXCEPT !.isCA = TRUE, !.keyUsage = @ \cup IsCABits])
      [] opt.k = "IsCRLCA" ->
            Applied([o EXCEPT !.isCA = TRUE, !.keyUsage = @ \cup IsCRLCABits])
      [] opt.k = "Pubkey" ->
            IF opt.v = Nil THEN Rejected(o, "pubkey is nil")
            ELSE Applied([o EXCEPT !.pubkey = opt.v])

RECURSIVE CertApplyFrom(_, _, _)
CertApplyFrom(o, opts, i) ==
    IF i > Len(opts) THEN [o |-> o, err |-> Nil, applied |-> Len(opts)]
    ELSE LET r == ApplyCertOpt(o, opts[i])
         IN IF r.err # Nil THEN [o |-> Nil, err |-> r.err, applied |-> i]
            ELSE CertApplyFrom(r.o, opts, i + 1)

SerialAlwaysDrawn(serialNumber) == TRUE

\* case o.serialNumber == nil: a serial number is drawn from the generator
SerialMissing(serialNumber) == serialNumber = Nil

\* The serial number from the generator when none was set: the second half
\* of both applyOpts.  a is what the options left.
DrawSerial(a, clock, eff) ==
    IF a.err # Nil THEN [o |-> Nil, err |-> a.err, panic |-> FALSE, eff |-> eff]
    ELSE IF SerialMissing(a.o.serialNumber)
    THEN Only({
            IF g.panic THEN [o |-> Nil, err |-> Nil, panic |-> TRUE, eff |-> g.eff]
            ELSE [o |-> [a.o EXCEPT !.serialNumber = g.v], err |-> Nil,
                  panic |-> FALSE, eff |-> g.eff]
            : g \in {CallSerialNum(a.o.serialNumGenerator, clock, eff)} })
    ELSE [o |-> a.o, err |-> Nil, panic |-> FALSE, eff |-> eff]

\* x509V3CertOption.applyOpts: the options in order, then the serial
\* number from the generator when none was set.
CertApplyOpts(o, opts, clock, eff) ==
    IF o.err # Nil THEN [o |-> Nil, err |-> o.err, panic |-> FALSE, eff |-> eff]
    ELSE Only({ DrawSerial(a, clock, [eff EXCEPT !.applied = @ + a.applied])
                : a \in {CertApplyFrom(o, opts, 1)} })

\* crypto/x509 CreateCertificate: a CA template without a subject key id
\* gets one computed by the encoder from the public key.
EncoderSubjectKeyId(pubkey) == [autoSha1 |-> Pubkey2Der(pubkey).der]

CreateCertificate(tpl, parent, pubkey, prikey) ==
    IF SignRefused(tpl.SignatureAlgorithm, prikey) \/ Pubkey2Der(pubkey).err # Nil
    THEN [der |-> Nil, err |-> Err("x509: cannot sign certificate")]
    ELSE [der |-> [kind |-> "cert",
                   SerialNumber |-> tpl.SerialNumber,
                   Subject |-> tpl.Subject,
                   Issuer |-> parent.Subject,
                   NotBefore |-> tpl.NotBefore,
                   NotAfter |-> tpl.NotAfter,
                   KeyUsage |-> tpl.KeyUsage,
                   ExtKeyUsage |-> tpl.ExtKeyUsage,
                   IsCA |-> tpl.IsCA,
                   PolicyIdentifiers |-> tpl.PolicyIdentifiers,
                   CRLDistributionPoints |-> tpl.CRLDistributionPoints,
                   OCSPServer |-> tpl.OCSPServer,
                   EmailAddresses |-> tpl.EmailAddresses,
                   DNSNames |-> tpl.DNSNames,
                   IPAddresses |-> tpl.IPAddresses,
                   URIs |-> tpl.URIs,
                   SubjectKeyId |-> IF tpl.SubjectKeyId = Nil /\ tpl.IsCA
                                    THEN EncoderSubjectKeyId(pubkey)
                                    ELSE tpl.SubjectKeyId,
                   PublicKey |-> pubkey,
                   signedBy |-> prikey.id],
          err |-> Nil]

PubkeyOfSigner(optPubkey, prikey) == GetPubkeyFromPrikey(prikey)

\* pubkey := opt.pubkey; if pubkey == nil { pubkey = GetPubkeyFromPrikey(prikey) }
PubkeyToEmbed(optPubkey, prikey) ==
    IF optPubkey = Nil THEN GetPubkeyFromPrikey(prikey) ELSE optPubkey

\* NewX509Cert, from the template on: opt is what applyOpts returned.
IssueCert(prikey, opt, pubkey, eff) ==
    Only({
       IF ~opt.isCA /\ skid.err # Nil
       THEN Returns("error", Wrap(skid.err, "generate cert subject key id"), Nil, Nil, eff)
       ELSE Only({
          Only({
             IF c.err # Nil
             THEN Returns("error", Wrap(c.err, "create certificate"), Nil, tpl,
                          [eff EXCEPT !.signs = @ + 1])
             ELSE Returns("ok", Nil, c.der, tpl, [eff EXCEPT !.signs = @ + 1])
             : c \in {CreateCertificate(tpl, IF opt.parent # Nil THEN opt.parent ELSE tpl,
                                        pubkey, prikey)} })
          : tpl \in {[SignatureAlgorithm |-> opt.signatureAlgorithm,
                      SerialNumber |-> opt.serialNumber,
                      Subject |-> opt.subject,
                      NotBefore |-> opt.validFrom,
                      NotAfter |-> DurAdd(opt.validFrom, opt.validFor),
                      KeyUsage |-> opt.keyUsage,
                      ExtKeyUsage |-> opt.extKeyUsage,
                      IsCA |-> opt.isCA,
                      PolicyIdentifiers |-> opt.policies,
                      CRLDistributionPoints |-> opt.crls,
                      OCSPServer |-> opt.ocsps,
                      EmailAddresses |-> opt.emailAddresses,
                      DNSNames |-> opt.dnsNames,
                      IPAddresses |-> opt.ipAddresses,
                      URIs |-> opt.uris,
                      SubjectKeyId |-> IF ~opt.isCA THEN skid.id ELSE Nil]} })
       : skid \in {X509CertSubjectKeyID(pubkey)} })

\* NewX509Cert
NewX509Cert(prikey, opts, clock, eff) ==
    IF ValidPrikey(prikey) # Nil
    THEN Returns("error", ValidPrikey(prikey), Nil, Nil, eff)
    ELSE Only({
       IF a.panic THEN Returns("panic", Nil, Nil, Nil, a.eff)
       ELSE IF a.err # Nil THEN Returns("error", a.err, Nil, Nil, a.eff)
       ELSE IssueCert(prikey, a.o, PubkeyToEmbed(a.o.pubkey, prikey), a.eff)
       : a \in {CertApplyOpts(X509V3CertOptionDefault(clock), opts, clock, eff)} })

(***************************************************************************)
(* Signing a CSR                                                            *)
(***************************************************************************)
\* The closures returned by the WithX509SignCSR... constructors and
\* WithX509SerialNumGenerator.
ApplySignOpt(o, opt) ==
    CASE opt.k = "SerialNumGenerator" -> Applied([o EXCEPT !.serialNumGenerator = opt.v])
      [] opt.k = "Policies" -> Applied([o EXCEPT !.policies = @ \o opt.v])
      [] opt.k = "OCSPServers" -> Applied([o EXCEPT !.ocsps = @ \o opt.v])
      [] opt.k = "SeriaNumber" ->
            IF opt.v = Nil THEN Rejected(o, "serial number shoule not be empty")
            ELSE Applied([o EXCEPT !.serialNumber = opt.v])
      [] opt.k = "KeyUsage" -> Applied([o EXCEPT !.keyUsage = AddKeyUsage(@, opt.v)])
      [] opt.k = "CRLs" -> Applied([o EXCEPT !.crls = @ \o opt.v])
      [] opt.k = "ExtKeyUsage" -> Applied([o EXCEPT !.extKeyUsage = @ \o opt.v])
      [] opt.k = "ValidFrom" -> Applied([o EXCEPT !.validFrom = opt.v])
      [] opt.k = "ValidFor" -> Applied([o EXCEPT !.validFor = opt.v])
      [] opt.k = "IsCA" ->
            Applied([o EXCEPT !.isCA = TRUE, !.keyUsage = @ \cup IsCABits])
      [] opt.k = "IsCRLCA" ->
            Applied([o EXCEPT !.isCA = TRUE, !.keyUsage = @ \cup IsCRLCABits])

RECURSIVE SignApplyFrom(_, _, _)
SignApplyFrom(o, opts, i) ==
    IF i > Len(opts) THEN [o |-> o, err |-> Nil, applied |-> Len(opts)]
    ELSE LET r == ApplySignOpt(o, opts[i])
         IN IF r.err # Nil THEN [o |-> Nil, err |-> r.err, applied |-> i]
            ELSE SignApplyFrom(r.o, opts, i + 1)

\* signCSROption.applyOpts
SignApplyOpts(o, opts, clock, eff) ==
    Only({ DrawSerial(a, clock, [eff EXCEPT !.applied = @ + a.applied])
           : a \in {SignApplyFrom(o, opts, 1)} })

\* Der2CSR: the parsed certificate request, or an error for bytes that are
\* no CSR.
Der2CSR(csrDer) ==
    IF csrDer.kind = "csr" THEN [csr |-> csrDer, err |-> Nil]
    ELSE [csr |-> Nil, err |-> Err("x509: malformed certificate request")]

Opt(k, v) == [k |-> k, v |-> v]

\* !ca.IsCA || (ca.KeyUsage&x509.KeyUsageCertSign) == x509.KeyUsage(0)
CAMaySign(ca) == ca.IsCA /\ "CertSign" \in ca.KeyUsage

\* The certificate options NewX509CertByCSR composes from the CSR and the
\* signing options.
CertOptsOfCSR(ca, csr, opt) ==
    << Opt("Subject", csr.Subject),
       Opt("Parent", ca),
       Opt("ValidFrom", opt.validFrom),
       Opt("ValidFor", opt.validFor),
       Opt("Policies", opt.policies),
       Opt("CRLs", opt.crls),
       Opt("OCSPServers", opt.ocsps),
       Opt("KeyUsage", <<opt.keyUsage>>),
       Opt("ExtKeyUsage", opt.extKeyUsage),
       Opt("SeriaNumber", opt.serialNumber),
       Opt("DNSNames", csr.DNSNames),
       Opt("EmailAddrs", csr.EmailAddresses),
       Opt("IPAddrs", csr.IPAddresses),
       Opt("URIs", csr.URIs),
       Opt("Pubkey", csr.PublicKey) >>
    \o (IF opt.isCA THEN << Opt("IsCA", Nil) >> ELSE <<>>)
    \o (IF opt.serialNumGenerator # Nil
        THEN << Opt("SerialNumGenerator", opt.serialNumGenerator) >> ELSE <<>>)

\* NewX509CertByCSR
NewX509CertByCSR(ca, prikey, csrDer, opts, clock, eff) ==
    IF ValidPrikey(prikey) # Nil
    THEN Returns("error", ValidPrikey(prikey), Nil, Nil, eff)
    ELSE Only({
       IF a.panic THEN Returns("panic", Nil, Nil, Nil, a.eff)
       ELSE IF a.err # Nil
       THEN Returns("error", Wrap(a.err, "apply options"), Nil, Nil, a.eff)
       ELSE IF ~CAMaySign(ca)
       THEN Returns("error", Err("ca is invalid to sign cert"), Nil, Nil, a.eff)
       ELSE Only({
          IF p.err # Nil
          THEN Returns("error", Wrap(p.err, "parse csr"), Nil, Nil, a.eff)
          ELSE NewX509Cert(prikey, CertOptsOfCSR(ca, p.csr, a.o), clock, a.eff)
          : p \in {Der2CSR(csrDer)} })
       : a \in {SignApplyOpts(SignCSROptionDefault(clock), opts, clock, eff)} })

(***************************************************************************)
(* RSA key with certificate, CRL                                            *)
(***************************************************************************)
\* NewRSAPrikey: 2048, 3072 and 4096 bits are accepted; the key generated
\* is a fresh RSA key.
NewRSAPrikey(rsaBits) ==
    IF rsaBits \in {2048, 3072, 4096}
    THEN [key |-> [alg |-> "rsa", id |-> 5], err |-> Nil]
    ELSE [key |-> Nil, err |-> Err("invalid rsa bits")]

\* Prikey2Pem
Prikey2Pem(prikey) == [pem |-> [kind |-> "pem", block |-> "PRIVATE KEY", keyid |-> prikey.id],
                       err |-> Nil]

\* NewRSAPrikeyAndCert: what it returns is (prikeyPem, certDer, err).
NewRSAPrikeyAndCert(rsaBits, opts, clock, eff) ==
    Only({
       IF k.err # Nil
       THEN [prikeyPem |-> Nil] @@
            Returns("error", Wrap(k.err, "new rsa prikey"), Nil, Nil, eff)
       ELSE Only({
          IF pem.err # Nil
          THEN [prikeyPem |-> Nil] @@
               Returns("error", Wrap(pem.err, "convert prikey to pem"), Nil, Nil, eff)
          ELSE Only({
             [prikeyPem |-> pem.pem] @@
             Returns(r.outcome, Wrap(r.err, "generate cert"), r.der, r.tpl, r.eff)
             : r \in {NewX509Cert(k.key, opts, clock, eff)} })
          : pem \in {Prikey2Pem(k.key)} })
       : k \in {NewRSAPrikey(rsaBits)} })

\* An X509CRLOption is any closure over x509CRLOption: one that sets the
\* signature algorithm, one that shifts nextUpdate, or one that fails.
ApplyCRLOpt(o, opt) ==
    CASE opt.k = "SignatureAlgorithm" -> Applied([o EXCEPT !.signatureAlgorithm = opt.v])
      [] opt.k = "NextUpdate" -> Applied([o EXCEPT !.nextUpdate = opt.v])
      [] opt.k = "Fail" -> Rejected(o, opt.v)

RECURSIVE CRLApplyFrom(_, _, _)
\* x509CRLOption.applyOpts
CRLApplyFrom(o, opts, i) ==
    IF i > Len(opts) THEN [o |-> o, err |-> Nil, applied |-> Len(opts)]
    ELSE LET r == ApplyCRLOpt(o, opts[i])
         IN IF r.err # Nil THEN [o |-> Nil, err |-> r.err, applied |-> i]
            ELSE CRLApplyFrom(r.o, opts, i + 1)

ThirtyDays == [d |-> 30, ms |-> 0]

\* new(x509CRLOption).fillDefault()
X509CRLOptionDefault(clock) ==
    [signatureAlgorithm |-> SigAlgUnknown, thisUpdate |-> clock,
     nextUpdate |-> DurAdd(clock, ThirtyDays)]

\* x509.CreateRevocationList: the issuer needs the CRLSign bit and a
\* subject key id, the list a number, and the key must be able to sign.
CreateRevocationList(tpl, ca, signer) ==
    IF \/ signer = Nil
       \/ "CRLSign" \notin ca.KeyUsage
       \/ ca.SubjectKeyId = Nil
       \/ tpl.Number = Nil
       \/ SigAlgFamily(tpl.SignatureAlgorithm) \notin {"any", signer.alg}
    THEN [der |-> Nil, err |-> Err("x509: cannot create revocation list")]
    ELSE [der |-> [kind |-> "crl", Number |-> tpl.Number,
                   ThisUpdate |-> tpl.ThisUpdate, NextUpdate |-> tpl.NextUpdate,
                   RevokedCertificates |-> tpl.RevokedCertificates,
                   Issuer |-> ca.Subject, signedBy |-> signer.id],
          err |-> Nil]

SeriaNumberNeverEmpty(seriaNumber) == FALSE

\* if seriaNumber == nil
SeriaNumberEmpty(seriaNumber) == seriaNumber = Nil

\* NewX509CRL
NewX509CRL(ca, prikey, seriaNumber, revokeCerts, opts, clock, eff) ==
    IF ValidPrikey(prikey) # Nil
    THEN Returns("error", ValidPrikey(prikey), Nil, Nil, eff)
    ELSE IF SeriaNumberEmpty(seriaNumber)
    THEN Returns("error", Err("seriaNumber is empty"), Nil, Nil, eff)
    ELSE Only({
       IF a.err # Nil
       THEN Returns("error", a.err, Nil, Nil, [eff EXCEPT !.applied = @ + a.applied])
       ELSE Only({
          Only({
             Returns(IF c.err # Nil THEN "error" ELSE "ok", c.err, c.der, tpl,
                     [eff EXCEPT !.applied = @ + a.applied, !.signs = @ + 1])
             : c \in {CreateRevocationList(tpl, ca, Privkey2Signer(prikey))} })
          : tpl \in {[Number |-> seriaNumber,
                      SignatureAlgorithm |-> a.o.signatureAlgorithm,
                      ThisUpdate |-> a.o.thisUpdate,
                      NextUpdate |-> a.o.nextUpdate,
                      RevokedCertificates |-> revokeCerts]} })
       : a \in {CRLApplyFrom(X509CRLOptionDefault(clock), opts, 1)} })

(***************************************************************************)
(* Builder calls.  Spec makes one builder call at a time from the idle      *)
(* state; the call is one step, and res records its arguments, its return   *)
(* values and its effects until Return clears it.                           *)
(***************************************************************************)
\* Longest option list handed to a builder.
MaxOpts == 2

\* Builder calls in one run.
MaxCalls == 1

SeqsUpTo(S, k) == UNION { [1..m -> S] : m \in 0..k }

NameS == [EmptyName EXCEPT !.CommonName = "s", !.Organization = <<"os">>]

CSROptPool ==
    { Opt("Subject", NameS), Opt("Subject", EmptyName),
      Opt("CommonName", "a"), Opt("CommonName", "b"),
      Opt("Organization", <<"o1">>), Opt("Organization", <<"o2", "o3">>),
      Opt("DNSNames", <<"d1">>), Opt("DNSNames", <<"d2", "d3">>),
      Opt("EmailAddrs", <<"e1">>),
      Opt("SignatureAlgorithm", "ECDSAWithSHA256"),
      Opt("SignatureAlgorithm", "SHA256WithRSA") }

\* Certificates a caller can hold and pass as CA or parent: a CA, a CA for
\* CRLs only, a leaf, and a leaf that was given the CertSign bit.
ParentCert(cn, opts) ==
    NewX509Cert(RSAKey, <<Opt("CommonName", cn), Opt("SeriaNumber", BigInt(1))>> \o opts,
                [d |-> 719162, ms |-> 0], Effects(0, 0)).der
CACert == ParentCert("ca", <<Opt("IsCA", Nil)>>)
CRLCACert == ParentCert("crlca", <<Opt("IsCRLCA", Nil)>>)
LeafCert == ParentCert("leaf", <<>>)
LeafCertSignCert == ParentCert("leafsign", <<Opt("KeyUsage", <<{"CertSign"}>>)>>)
ParentCerts == {CACert, CRLCACert, LeafCert, LeafCertSignCert}

\* A public key a caller can pass to WithX509CertPubkey.
ForeignPubkey == [pubalg |-> "ecdsa", pubid |-> 9]
UnknownPubkey == [pubalg |-> "other", pubid |-> 8]

CertOptPool ==
    { Opt("Parent", CACert), Opt("Parent", LeafCert),
      Opt("SeriaNumber", Nil), Opt("SeriaNumber", BigInt(7)),
      Opt("SerialNumGenerator", Nil), Opt("SerialNumGenerator", CustomGen),
      Opt("KeyUsage", <<{"CertSign"}>>), Opt("KeyUsage", <<{"CRLSign"}>>),
      Opt("KeyUsage", <<{"DataEncipherment"}, {"CertSign"}>>),
      Opt("IsCA", Nil), Opt("IsCRLCA", Nil),
      Opt("Subject", NameS),
      Opt("CommonName", "a"), Opt("CommonName", "b"),
      Opt("Organization", <<"o1">>), Opt("Organization", <<"o2", "o3">>),
      Opt("DNSNames", <<"d1">>), Opt("Policies", <<"1.2.3">>), Opt("Policies", <<"1.2.4">>),
      Opt("Pubkey", Nil), Opt("Pubkey", ForeignPubkey), Opt("Pubkey", UnknownPubkey),
      Opt("SignatureAlgorithm", "ECDSAWithSHA256"),
      Opt("SignatureAlgorithm", "SHA256WithRSA"),
      Opt("ValidFrom", [d |-> 730000, ms |-> 0]),
      Opt("ValidFrom", [d |-> 740000, ms |-> 5]) }

SignOptPool ==
    { Opt("SerialNumGenerator", Nil), Opt("SerialNumGenerator", CustomGen),
      Opt("SeriaNumber", Nil), Opt("SeriaNumber", BigInt(7)),
      Opt("KeyUsage", <<{"CertSign"}>>), Opt("KeyUsage", <<{"CRLSign"}>>),
      Opt("IsCA", Nil), Opt("IsCRLCA", Nil),
      Opt("Policies", <<"1.2.3">>),
      Opt("ValidFor", [d |-> 1, ms |-> 0]) }

\* CSR bytes a caller can hold: requests made by NewX509CSR, and bytes
\* that are no CSR.
CSROf(prikey, opts) == NewX509CSR(prikey, opts, Effects(0, 0)).der
LeafCSR == CSROf(ECDSAKey, <<Opt("CommonName", "leaf"), Opt("DNSNames", <<"leaf.example">>)>>)
OrgCSR == CSROf(Ed25519Key, <<Opt("Subject", NameS), Opt("EmailAddrs", <<"e1">>)>>)
BareCSR == CSROf(RSAKey, <<>>)
GarbageDer == [kind |-> "garbage"]
CSRDers == {LeafCSR, OrgCSR, BareCSR, GarbageDer}

CRLOptPool ==
    { Opt("SignatureAlgorithm", "ECDSAWithSHA256"),
      Opt("NextUpdate", [d |-> 800000, ms |-> 0]),
      Opt("Fail", "option failed") }

Idle == res = None /\ calls < MaxCalls

\* The call returned (or panicked): the generators keep the state it left.
Done(call, ret) ==
    /\ res' = call @@ ret
    /\ n' = ret.eff.n
    /\ customN' = ret.eff.customN
    /\ calls' = calls + 1
    /\ UNCHANGED <<now, ticks, inMs, pc, t, at, first, last, nret>>
    /\ UNCHANGED others

CallBase(op) == [op |-> op, n0 |-> n, customN0 |-> customN, clock |-> now]

CallNewX509CSR ==
    /\ Idle
    /\ \E prikey \in PriKeys, opts \in SeqsUpTo(CSROptPool, MaxOpts) :
          Done(CallBase("NewX509CSR") @@ [prikey |-> prikey, opts |-> opts],
               NewX509CSR(prikey, opts, Effects(n, customN)))

CallNewX509Cert ==
    /\ Idle
    /\ \E prikey \in PriKeys, opts \in SeqsUpTo(CertOptPool, MaxOpts) :
          Done(CallBase("NewX509Cert") @@ [prikey |-> prikey, opts |-> opts],
               NewX509Cert(prikey, opts, now, Effects(n, customN)))

CallNewX509CertByCSR ==
    /\ Idle
    /\ \E ca \in ParentCerts, prikey \in PriKeys, csrDer \in CSRDers,
          opts \in SeqsUpTo(SignOptPool, MaxOpts) :
          Done(CallBase("NewX509CertByCSR")
                 @@ [ca |-> ca, prikey |-> prikey, csrDer |-> csrDer, opts |-> opts],
               NewX509CertByCSR(ca, prikey, csrDer, opts, now, Effects(n, customN)))

CallNewRSAPrikeyAndCert ==
    /\ Idle
    /\ \E rsaBits \in {1024, 2048}, opts \in SeqsUpTo(CertOptPool, MaxOpts) :
          Done(CallBase("NewRSAPrikeyAndCert") @@ [rsaBits |-> rsaBits, opts |-> opts],
               NewRSAPrikeyAndCert(rsaBits, opts, now, Effects(n, customN)))

CallNewX509CRL ==
    /\ Idle
    /\ \E ca \in ParentCerts, prikey \in PriKeys, seriaNumber \in {Nil, BigInt(5)},
          opts \in SeqsUpTo(CRLOptPool, MaxOpts) :
          Done(CallBase("NewX509CRL")
                 @@ [ca |-> ca, prikey |-> prikey, seriaNumber |-> seriaNumber,
                     opts |-> opts],
               NewX509CRL(ca, prikey, seriaNumber, <<>>, opts, now, Effects(n, customN)))

\* The caller is done with what the call returned.
Return ==
    /\ res # None
    /\ res' = None
    /\ UNCHANGED <<now, ticks, n, inMs, pc, t, at, first, last, nret, customN, calls>>
    /\ UNCHANGED others

Init ==
    /\ now \in StartInstants
    /\ ticks = 0
    /\ n \in {0, RotateBound - 1}
    /\ inMs = 0
    /\ pc = [p \in Callers |-> "idle"]
    /\ t = [p \in Callers |-> None]
    /\ at = [p \in Callers |-> None]
    /\ first = None
    /\ last = None
    /\ nret = 0
    /\ customN = 0
    /\ calls = 0
    /\ res = None
    /\ OthersOff

Next ==
    \/ CallNewX509CSR
    \/ CallNewX509Cert
    \/ CallNewX509CertByCSR
    \/ CallNewRSAPrikeyAndCert
    \/ CallNewX509CRL
    \/ Return

Spec == Init /\ [][Next]_vars

(***************************************************************************)
(* C1: no two SerialNum() calls on the default generator return the same    *)
(* value, provided the rotating counter does not complete a full rotation   *)
(* within one millisecond of the clock.  Stated for the first serial number *)
(* handed out and the latest one; SpecSerial draws at most MaxPerMs values  *)
(* per millisecond, fewer than a rotation.                                  *)
(***************************************************************************)
C1_SerialsDistinct ==
    (nret = 2 /\ MaxPerMs < RotateBound /\ inMs < RotateBound)
        => last.val # first.val

(***************************************************************************)
(* C2: every value SerialNum() returns is T * 10000 + c, T the wall clock   *)
(* in whole milliseconds at the call and 0 <= c < 10000, so a value         *)
(* returned in a later millisecond is greater than one returned in an       *)
(* earlier millisecond.                                                     *)
(***************************************************************************)
C2_SerialIsClockAndCounter ==
    /\ nret >= 1 =>
          /\ last.val = SerialValue(last.at, last.c)
          /\ last.c \in 0..(RotateBound - 1)
    /\ (nret = 2 /\ DurLess(first.at, last.at)) => SerialLess(first.val, last.val)

(***************************************************************************)
(* What the claims about the builders read off a finished call              *)
(***************************************************************************)
Issued(ops) == res # None /\ res.op \in ops /\ res.outcome = "ok"

HasOpt(opts, k) == \E i \in 1..Len(opts) : opts[i].k = k

\* The argument of the last option of constructor k in the list.
LastOpt(opts, k) ==
    opts[CHOOSE i \in 1..Len(opts) :
            opts[i].k = k /\ \A j \in (i + 1)..Len(opts) : opts[j].k # k].v

\* The parent of the last WithX509CertParent among the options, if any.
BadParentGiven(opts) ==
    /\ HasOpt(opts, "Parent")
    /\ ~(LastOpt(opts, "Parent").IsCA /\ "CertSign" \in LastOpt(opts, "Parent").KeyUsage)

(***************************************************************************)
(* C3: an issuance that signs with a parent certificate (NewX509CertByCSR,  *)
(* and NewX509Cert given WithX509CertParent) fails and emits no DER when    *)
(* the parent's CA flag is false or its key usage lacks CertSign.           *)
(***************************************************************************)
C3_NonCAParentRefused ==
    res # None =>
       /\ (res.op = "NewX509CertByCSR"
           /\ ~(res.ca.IsCA /\ "CertSign" \in res.ca.KeyUsage))
             => (res.outcome # "ok" /\ res.der = Nil)
       /\ (res.op = "NewX509Cert" /\ BadParentGiven(res.opts))
             => (res.outcome # "ok" /\ res.der = Nil)

(***************************************************************************)
(* C4: the certificate NewX509CertByCSR builds has the subject, the DNS,    *)
(* email, IP and URI SAN lists and the public key of the CSR, whatever the  *)
(* signing options.                                                         *)
(***************************************************************************)
C4_CSRIdentityKept ==
    Issued({"NewX509CertByCSR"}) =>
       /\ res.der.Subject = res.csrDer.Subject
       /\ res.der.DNSNames = res.csrDer.DNSNames
       /\ res.der.EmailAddresses = res.csrDer.EmailAddresses
       /\ res.der.IPAddresses = res.csrDer.IPAddresses
       /\ res.der.URIs = res.csrDer.URIs
       /\ res.der.PublicKey = res.csrDer.PublicKey

\* A CSR of another key than the CA's was signed with two signing options.
C4_Witness ==
    /\ Issued({"NewX509CertByCSR"})
    /\ Len(res.opts) = 2
    /\ res.csrDer = LeafCSR
    /\ res.prikey = RSAKey
    /\ res.der.PublicKey = [pubalg |-> "ecdsa", pubid |-> 2]
    /\ res.der.Subject.CommonName = "leaf"
    /\ res.der.DNSNames = <<"leaf.example">>

(***************************************************************************)
(* C5: NewX509Cert gives a non-CA certificate the subject key identifier    *)
(* SHA-1(DER of the embedded public key), and sets none on a CA.            *)
(***************************************************************************)
C5_SubjectKeyIdIsKeyDigest ==
    Issued({"NewX509Cert"}) =>
       IF res.tpl.IsCA
       THEN res.tpl.SubjectKeyId = Nil
       ELSE res.tpl.SubjectKeyId = [sha1 |-> <<48, res.der.PublicKey.pubid>>]

(***************************************************************************)
(* C6: with a private key that is no RSA, ECDSA or Ed25519 key, NewX509CSR, *)
(* NewX509Cert, NewX509CertByCSR and NewX509CRL return an error before any  *)
(* option is applied, any serial number drawn or any signing primitive      *)
(* called.                                                                  *)
(***************************************************************************)
C6_UnsupportedKeyRefusedFirst ==
    (/\ res # None
     /\ res.op \in {"NewX509CSR", "NewX509Cert", "NewX509CertByCSR", "NewX509CRL"}
     /\ res.prikey.alg \notin {"rsa", "ecdsa", "ed25519"})
    => /\ res.outcome = "error"
       /\ res.der = Nil
       /\ res.eff.applied = 0
       /\ res.eff.drawsDefault = 0 /\ res.eff.drawsCustom = 0
       /\ res.eff.n = res.n0 /\ res.eff.customN = res.customN0
       /\ res.eff.signs = 0

\* NewX509CertByCSR was called with an unsupported key, a CA that may sign,
\* a good CSR and options that would draw from the caller's generator.
C6_Witness ==
    /\ res # None
    /\ res.op = "NewX509CertByCSR"
    /\ res.prikey = OtherKey
    /\ res.ca = CACert
    /\ res.csrDer = LeafCSR
    /\ res.opts = <<Opt("SerialNumGenerator", CustomGen), Opt("IsCA", Nil)>>
    /\ res.outcome = "error"

(***************************************************************************)
(* C7: when NewX509CSR, NewX509Cert, NewX509CertByCSR, NewX509CRL or        *)
(* NewRSAPrikeyAndCert returns a non-nil error, every other value it        *)
(* returns is nil.                                                          *)
(***************************************************************************)
C7_NoPartialResultWithError ==
    (res # None /\ res.outcome = "error") =>
       /\ res.err # Nil
       /\ res.der = Nil
       /\ res.op = "NewRSAPrikeyAndCert" => res.prikeyPem = Nil

(***************************************************************************)
(* C8: the serial number of a certificate issued by NewX509Cert or          *)
(* NewX509CertByCSR is the explicit one when an option set one; otherwise   *)
(* it is the result of exactly one SerialNum() call, on the caller's        *)
(* generator when one was supplied and else on the default generator; no    *)
(* other generator is called.                                               *)
(***************************************************************************)
C8_SerialSource ==
    Issued({"NewX509Cert", "NewX509CertByCSR"}) =>
       IF HasOpt(res.opts, "SeriaNumber")
       THEN /\ res.der.SerialNumber = LastOpt(res.opts, "SeriaNumber")
            /\ res.eff.drawsDefault = 0 /\ res.eff.drawsCustom = 0
            /\ res.eff.n = res.n0 /\ res.eff.customN = res.customN0
       ELSE IF HasOpt(res.opts, "SerialNumGenerator")
       THEN /\ res.der.SerialNumber = [d |-> 0, ms |-> 0, c |-> 101 + res.customN0]
            /\ res.eff.drawsCustom = 1 /\ res.eff.drawsDefault = 0
            /\ res.eff.customN = res.customN0 + 1 /\ res.eff.n = res.n0
       ELSE /\ res.der.SerialNumber.c = (res.n0 + 1) % 10000
            /\ res.der.SerialNumber.d = SinceZeroTime(res.clock).d
            /\ res.der.SerialNumber.ms = SinceZeroTime(res.clock).ms
            /\ res.eff.drawsDefault = 1 /\ res.eff.drawsCustom = 0
            /\ res.eff.n = (res.n0 + 1) % 10000 /\ res.eff.customN = res.customN0

\* A CSR was signed with an explicit serial number although the caller's
\* generator was supplied as well.
C8_Witness ==
    /\ Issued({"NewX509CertByCSR"})
    /\ res.opts = <<Opt("SeriaNumber", BigInt(7)), Opt("SerialNumGenerator", CustomGen)>>
    /\ res.der.SerialNumber = BigInt(7)
    /\ res.eff.drawsCustom = 0

\* The bits every add-key-usage option of the list passes.
RECURSIVE BitsOf(_)
BitsOf(usage) == IF usage = <<>> THEN {} ELSE Head(usage) \cup BitsOf(Tail(usage))

AddedBits(opts) ==
    UNION { BitsOf(opts[i].v) : i \in { j \in 1..Len(opts) : opts[j].k = "KeyUsage" } }

(***************************************************************************)
(* C9 as stated: the key usage of an issued certificate is the OR of the    *)
(* default bits (key encipherment, digital signature) and every bit passed  *)
(* to an add-key-usage option.                                              *)
(***************************************************************************)
C9_KeyUsageIsDefaultsAndAdded ==
    Issued({"NewX509Cert", "NewX509CertByCSR"}) =>
       res.der.KeyUsage = {"KeyEncipherment", "DigitalSignature"} \cup AddedBits(res.opts)

\* The bits the CA options of the list add: CertSign and CRLSign for the
\* is-CA options and for either CA option of NewX509CertByCSR, CRLSign for
\* WithX509CertIsCRLCA.
CABits(op, opts) ==
    (IF HasOpt(opts, "IsCA") \/ (op = "NewX509CertByCSR" /\ HasOpt(opts, "IsCRLCA"))
     THEN {"CertSign", "CRLSign"} ELSE {})
    \cup (IF HasOpt(opts, "IsCRLCA") THEN {"CRLSign"} ELSE {})

(***************************************************************************)
(* C9, amended: the key usage of an issued certificate is the OR of the     *)
(* default bits, every bit passed to an add-key-usage option and the bits   *)
(* the CA options add, whatever the order of the options and however often  *)
(* a bit is passed.                                                         *)
(***************************************************************************)
C9_KeyUsageIsDefaultsAddedAndCA ==
    Issued({"NewX509Cert", "NewX509CertByCSR"}) =>
       res.der.KeyUsage = {"KeyEncipherment", "DigitalSignature"}
                            \cup AddedBits(res.opts) \cup CABits(res.op, res.opts)

\* CertSign was added, then CRLSign, and the certificate has both.
C9_Witness ==
    /\ Issued({"NewX509Cert"})
    /\ res.opts = <<Opt("KeyUsage", <<{"CertSign"}>>), Opt("KeyUsage", <<{"CRLSign"}>>)>>
    /\ res.der.KeyUsage = {"KeyEncipherment", "DigitalSignature", "CertSign", "CRLSign"}

\* What one option gives for a field: the list it appends, the list of the
\* subject it sets, or nothing.
Given(opt, field) ==
    CASE field = "Organization" /\ opt.k = "Organization" -> opt.v
      [] field = "Organization" /\ opt.k = "Subject" -> opt.v.Organization
      [] field = "DNSNames" /\ opt.k = "DNSNames" -> opt.v
      [] field = "EmailAddresses" /\ opt.k = "EmailAddrs" -> opt.v
      [] field = "Policies" /\ opt.k = "Policies" -> opt.v
      [] OTHER -> <<>>

RECURSIVE ConcatGiven(_, _, _)
\* The lists options i.. of the list give for a field, in order.
ConcatGiven(opts, i, field) ==
    IF i > Len(opts) THEN <<>>
    ELSE Given(opts[i], field) \o ConcatGiven(opts, i + 1, field)

\* Index of the last whole-subject option, 1 if there is none.
FromLastSubject(opts) ==
    IF HasOpt(opts, "Subject")
    THEN CHOOSE i \in 1..Len(opts) :
            opts[i].k = "Subject" /\ \A j \in (i + 1)..Len(opts) : opts[j].k # "Subject"
    ELSE 1

\* The common name the last option that sets one gives.
LastCommonName(opts) ==
    IF \E i \in 1..Len(opts) : opts[i].k \in {"CommonName", "Subject"}
    THEN LET i == CHOOSE i \in 1..Len(opts) :
                     /\ opts[i].k \in {"CommonName", "Subject"}
                     /\ \A j \in (i + 1)..Len(opts) : opts[j].k \notin {"CommonName", "Subject"}
         IN IF opts[i].k = "Subject" THEN opts[i].v.CommonName ELSE opts[i].v
    ELSE ""

PoliciesKept(from) ==
    res.op = "NewX509Cert" => res.der.PolicyIdentifiers = ConcatGiven(res.opts, from, "Policies")

\* Each single-valued field holds what the last option that set it gave,
\* and its default when no option set it.
SingleValuedLastWins ==
    /\ res.der.Subject.CommonName = LastCommonName(res.opts)
    /\ res.tpl.SignatureAlgorithm =
          IF HasOpt(res.opts, "SignatureAlgorithm")
          THEN LastOpt(res.opts, "SignatureAlgorithm")
          ELSE "UnknownSignatureAlgorithm"
    /\ res.op = "NewX509Cert" =>
          /\ res.der.NotBefore =
                IF HasOpt(res.opts, "ValidFrom")
                THEN LastOpt(res.opts, "ValidFrom")
                ELSE res.clock
          /\ res.der.IsCA = (HasOpt(res.opts, "IsCA") \/ HasOpt(res.opts, "IsCRLCA"))

(***************************************************************************)
(* C10 as stated: after any list of CSR or certificate options each         *)
(* single-valued field (common name, validity start, signature algorithm,   *)
(* CA flag) is the one given by the last option that set it, and each list  *)
(* field (organization, SAN lists, policies) is the in-order concatenation  *)
(* of the values given by all the options that set it.                      *)
(***************************************************************************)
C10_LastWinsAndListsConcatenate ==
    Issued({"NewX509CSR", "NewX509Cert"}) =>
       /\ SingleValuedLastWins
       /\ res.der.Subject.Organization = ConcatGiven(res.opts, 1, "Organization")
       /\ res.der.DNSNames = ConcatGiven(res.opts, 1, "DNSNames")
       /\ res.der.EmailAddresses = ConcatGiven(res.opts, 1, "EmailAddresses")
       /\ PoliciesKept(1)

(***************************************************************************)
(* C10, amended: each single-valued field is the one given by the last      *)
(* option that set it; the SAN lists and the policies are the in-order      *)
(* concatenation of the values given by all the options that set them; a    *)
(* list field of the subject is the list of the last whole-subject option,  *)
(* if any, followed by the values the later options append, in order.       *)
(***************************************************************************)
C10_LastWinsAndListsAppendSinceSubject ==
    Issued({"NewX509CSR", "NewX509Cert"}) =>
       /\ SingleValuedLastWins
       /\ res.der.Subject.Organization =
             ConcatGiven(res.opts, FromLastSubject(res.opts), "Organization")
       /\ res.der.DNSNames = ConcatGiven(res.opts, 1, "DNSNames")
       /\ res.der.EmailAddresses = ConcatGiven(res.opts, 1, "EmailAddresses")
       /\ PoliciesKept(1)

\* An organization was appended and then the whole subject set: the list is
\* the subject's, and the common name the subject's too.
C10_Witness ==
    /\ Issued({"NewX509Cert"})
    /\ res.opts = <<Opt("Organization", <<"o1">>), Opt("Subject", NameS)>>
    /\ res.der.Subject.Organization = <<"os">>
    /\ res.der.Subject.CommonName = "s"

(***************************************************************************)
(* C12: NewX509CRL returns an error and no CRL whenever the serial number   *)
(* given is nil: it draws no serial number from a generator in its place    *)
(* and signs nothing; otherwise the number of the CRL it returns is the     *)
(* serial number the caller supplied.                                       *)
(***************************************************************************)
C12_CRLNumberIsTheCallers ==
    (res # None /\ res.op = "NewX509CRL") =>
       /\ res.seriaNumber = [nil |-> TRUE] =>
             /\ res.outcome = "error"
             /\ res.der = Nil
             /\ res.eff.drawsDefault = 0 /\ res.eff.drawsCustom = 0
             /\ res.eff.n = res.n0 /\ res.eff.customN = res.customN0
             /\ res.eff.signs = 0
       /\ res.outcome = "ok" =>
             /\ res.seriaNumber # [nil |-> TRUE]
             /\ res.der.Number = res.seriaNumber

\* A CA that may sign CRLs, with its key, was given a nil serial number.
C12_Witness ==
    /\ res # None
    /\ res.op = "NewX509CRL"
    /\ res.ca = CACert
    /\ res.prikey = RSAKey
    /\ res.opts = <<>>
    /\ res.seriaNumber = Nil
    /\ res.outcome = "error"

\* The bits the signing options of the list accumulate: the defaults, the
\* bits added, CertSign and CRLSign for WithX509SignCSRIsCA, CRLSign for
\* WithX509SignCSRIsCRLCA.
SignOptBits(opts) ==
    KeyUsageDefault \cup AddedBits(opts)
       \cup (IF HasOpt(opts, "IsCA") THEN IsCABits ELSE {})
       \cup (IF HasOpt(opts, "IsCRLCA") THEN IsCRLCABits ELSE {})

(***************************************************************************)
(* C25: a certificate issued by NewX509CertByCSR carries exactly the CA     *)
(* flag and the key-usage bits accumulated by the signing options, the same *)
(* as NewX509Cert gives for the corresponding certificate options; with     *)
(* WithX509SignCSRIsCRLCA alone it is a CA certificate that has CRLSign and *)
(* does not have CertSign.                                                  *)
(***************************************************************************)
C25_SignedCertHasTheOptionsBits ==
    Issued({"NewX509CertByCSR"}) =>
       /\ res.der.IsCA = (HasOpt(res.opts, "IsCA") \/ HasOpt(res.opts, "IsCRLCA"))
       /\ res.der.KeyUsage = SignOptBits(res.opts)
       /\ res.opts = <<Opt("IsCRLCA", Nil)>> =>
             /\ res.der.IsCA
             /\ "CRLSign" \in res.der.KeyUsage
             /\ "CertSign" \notin res.der.KeyUsage

(***************************************************************************)
(* C26: a call to NewX509CertByCSR that is rejected (unsupported key,       *)
(* failing option, CA not allowed to sign, unparsable CSR) draws no serial  *)
(* number: the counters of the serial number generators are the same after  *)
(* the call as before it.                                                   *)
(***************************************************************************)
C26_RejectedSigningDrawsNoSerial ==
    (res # None /\ res.op = "NewX509CertByCSR" /\ res.outcome = "error") =>
       /\ res.eff.drawsDefault = 0 /\ res.eff.drawsCustom = 0
       /\ res.eff.n = res.n0 /\ res.eff.customN = res.customN0

(***************************************************************************)
(* Functions without state.  Each specification below calls one of them on  *)
(* every input of a bounded set; fn records the call that has returned.     *)
(* The builders and the serial number generator stay as they start.         *)
(***************************************************************************)
X509Off ==
    /\ now = [d |-> 719162, ms |-> 0]
    /\ ticks = 0
    /\ n = 0
    /\ inMs = 0
    /\ pc = [p \in Callers |-> "idle"]
    /\ t = [p \in Callers |-> None]
    /\ at = [p \in Callers |-> None]
    /\ first = None
    /\ last = None
    /\ nret = 0
    /\ customN = 0
    /\ calls = 0
    /\ res = None

\* Longest list of SAN strings given to a SANS option.
MaxSans == 3

\* WithX509CSRSANS(sans...) applied to a new x509CSROption
CallWithX509CSRSANS ==
    /\ fn = None
    /\ \E sans \in SeqsUpTo(SanSamples, MaxSans) :
          fn' = [op |-> "WithX509CSRSANS", in |-> sans,
                 out |-> ApplyCSROpt(X509CSROptionZero, Opt("SANS", sans)).o]
    /\ UNCHANGED notFn

\* WithX509CertSANS(sans...) applied to a new x509V3CertOption
CallWithX509CertSANS ==
    /\ fn = None
    /\ \E sans \in SeqsUpTo(SanSamples, MaxSans) :
          fn' = [op |-> "WithX509CertSANS", in |-> sans,
                 out |-> ApplyCertOpt(X509V3CertOptionDefault(now), Opt("SANS", sans)).o]
    /\ UNCHANGED notFn

InitSans == X509Off /\ FnOff /\ CmdOff /\ KafkaOff /\ ThrottleOff /\ ChainOff /\ SignalOff /\ JournalOff /\ Cmd2Off

NextSans == CallWithX509CSRSANS \/ CallWithX509CertSANS

SpecSans == InitSans /\ [][NextSans]_vars

\* The bucket the classification rule names for a string: IP if it parses
\* as an IP address, else email if it parses as an email address, else URI
\* if it parses as an absolute URI (one with a scheme), else DNS.
BucketOf(s) ==
    IF NetParseIP(s) # Nil THEN "ip"
    ELSE IF MailParseAddress(s).err = Nil THEN "email"
    ELSE IF UrlParseRequestURI(s).err = Nil /\ UrlParseRequestURI(s).uri.Scheme # ""
    THEN "uri"
    ELSE "dns"

\* What the bucket keeps of a string put into it.
KeptOf(s, bucket) ==
    CASE bucket = "ip" -> NetParseIP(s)
      [] bucket = "email" -> MailParseAddress(s).email.Address
      [] bucket = "uri" -> UrlParseRequestURI(s).uri
      [] bucket = "dns" -> s

RECURSIVE BucketFrom(_, _, _)
\* The entries of a bucket for the strings i.. of the list, in input order.
BucketFrom(sans, i, bucket) ==
    IF i > Len(sans) THEN <<>>
    ELSE (IF BucketOf(sans[i]) = bucket THEN <<KeptOf(sans[i], bucket)>> ELSE <<>>)
            \o BucketFrom(sans, i + 1, bucket)

(***************************************************************************)
(* C11: the SANS options put each input string into exactly one bucket: IP  *)
(* if it parses as an IP address, else email if it parses as an email       *)
(* address, else URI if it parses as an absolute URI, else DNS; the four    *)
(* buckets hold as many entries as there were input strings, in input       *)
(* order within each bucket.                                                *)
(***************************************************************************)
C11_SansClassified ==
    (fn # None /\ fn.op \in {"WithX509CSRSANS", "WithX509CertSANS"}) =>
       /\ Len(fn.out.ipAddresses) + Len(fn.out.emailAddresses)
            + Len(fn.out.uris) + Len(fn.out.dnsNames) = Len(fn.in)
       /\ fn.out.ipAddresses = BucketFrom(fn.in, 1, "ip")
       /\ fn.out.emailAddresses = BucketFrom(fn.in, 1, "email")
       /\ fn.out.uris = BucketFrom(fn.in, 1, "uri")
       /\ fn.out.dnsNames = BucketFrom(fn.in, 1, "dns")

(***************************************************************************)
(* RunCMDWithEnv (and RunCMD, which calls it): exec.CommandContext and      *)
(* cmd.CombinedOutput.  CombinedOutput starts the program with its stdout   *)
(* and stderr on one pipe, copies the pipe into a buffer and waits both for *)
(* the subprocess and for the end of the pipe, which comes when every       *)
(* process that holds the pipe has closed it.  A goroutine of exec.Cmd      *)
(* kills the subprocess when the context is done.                           *)
(***************************************************************************)
\* Programs to run: one that cannot be started, one that is a single
\* process, and one that forks a process which inherits its output.
Apps == {"missing", "single", "forking"}

\* Chunks of output a subprocess writes at most.
MaxOut == 2

\* cmd.CombinedOutput, up to the start of the subprocess: cmd.Start fails
\* when the context is done already or the program is not found.
RunCMDWithEnvStart ==
    /\ cmdPc = "idle"
    /\ \E a \in Apps :
          /\ app' = a
          /\ IF ctx = "done"
             THEN /\ cmdPc' = "returned"
                  /\ cmdRet' = [stdout |-> 0, err |-> Wrap(Err("context canceled"), "run")]
                  /\ proc' = proc
             ELSE IF a = "missing"
             THEN /\ cmdPc' = "returned"
                  /\ cmdRet' = [stdout |-> 0,
                                err |-> Wrap(Err("executable file not found"), "run")]
                  /\ proc' = proc
             ELSE /\ cmdPc' = "waiting"
                  /\ cmdRet' = cmdRet
                  /\ proc' = "running"
    /\ UNCHANGED <<ctx, exitCode, kid, piped, cancelled>>
    /\ UNCHANGED notCmd

\* The subprocess, or the process it forked, writes to the pipe.
ProcWrite ==
    /\ proc = "running" \/ kid = "running"
    /\ piped < MaxOut
    /\ piped' = piped + 1
    /\ UNCHANGED <<ctx, app, proc, exitCode, kid, cmdPc, cmdRet, cancelled>>
    /\ UNCHANGED notCmd

\* The subprocess forks a process that inherits the pipe.
ProcFork ==
    /\ proc = "running"
    /\ app = "forking"
    /\ kid = "none"
    /\ kid' = "running"
    /\ UNCHANGED <<ctx, app, proc, exitCode, piped, cmdPc, cmdRet, cancelled>>
    /\ UNCHANGED notCmd

\* The subprocess exits by itself.
ProcExit ==
    /\ proc = "running"
    /\ proc' = "exited"
    /\ exitCode' \in {0, 1}
    /\ UNCHANGED <<ctx, app, kid, piped, cmdPc, cmdRet, cancelled>>
    /\ UNCHANGED notCmd

\* The forked process exits by itself.
KidExit ==
    /\ kid = "running"
    /\ kid' = "exited"
    /\ UNCHANGED <<ctx, app, proc, exitCode, piped, cmdPc, cmdRet, cancelled>>
    /\ UNCHANGED notCmd

\* The context is cancelled or its deadline passes.
CtxDone ==
    /\ ctx = "live"
    /\ ctx' = "done"
    /\ cancelled' = (cmdPc = "waiting" /\ proc = "running")
    /\ UNCHANGED <<app, proc, exitCode, kid, piped, cmdPc, cmdRet>>
    /\ UNCHANGED notCmd

\* exec.Cmd's goroutine for the context: it kills the subprocess
\* (os.Process.Kill), and only the subprocess.
WatchCtx ==
    /\ cmdPc = "waiting"
    /\ ctx = "done"
    /\ proc = "running"
    /\ proc' = "killed"
    /\ UNCHANGED <<ctx, app, exitCode, kid, piped, cmdPc, cmdRet, cancelled>>
    /\ UNCHANGED notCmd

\* The copy of the pipe ends when no process holds the pipe any more.
PipeAtEOF == proc \in {"exited", "killed"} /\ kid # "running"

\* cmd.Wait returns and RunCMDWithEnv with it: the error of a killed
\* subprocess or of one that exited with a status other than 0, wrapped.
WaitReturn ==
    /\ cmdPc = "waiting"
    /\ PipeAtEOF
    /\ cmdPc' = "returned"
    /\ cmdRet' = [stdout |-> piped,
                  err |-> Wrap(IF proc = "killed" THEN Err("signal: killed")
                               ELSE IF exitCode # 0 THEN Err("exit status 1")
                               ELSE Nil, "run")]
    /\ UNCHANGED <<ctx, app, proc, exitCode, kid, piped, cancelled>>
    /\ UNCHANGED notCmd

InitRunCMD ==
    /\ X509Off
    /\ Cmd2Off
    /\ JournalOff
    /\ SignalOff
    /\ ChainOff
    /\ ThrottleOff
    /\ FnOff
    /\ KafkaOff
    /\ ctx \in {"live", "done"}
    /\ app = None
    /\ proc = "none"
    /\ exitCode = 0
    /\ kid = "none"
    /\ piped = 0
    /\ cmdPc = "idle"
    /\ cmdRet = None
    /\ cancelled = FALSE

NextRunCMD ==
    \/ RunCMDWithEnvStart
    \/ ProcWrite
    \/ ProcFork
    \/ ProcExit
    \/ KidExit
    \/ CtxDone
    \/ WatchCtx
    \/ WaitReturn

SpecRunCMD == InitRunCMD /\ [][NextRunCMD]_vars

(***************************************************************************)
(* C13: if the context given to RunCMDWithEnv is done while the subprocess  *)
(* is running, the subprocess is terminated and the call returns an error   *)
(* without waiting for a process to exit on its own: from then on the call  *)
(* has returned, or a step of its own (the kill, the return of Wait) is     *)
(* possible; and when it has returned after the kill it has returned an     *)
(* error.                                                                   *)
(***************************************************************************)
C13_CancelEndsTheCall ==
    cancelled =>
       \/ cmdPc = "returned" /\ (proc = "killed" => cmdRet.err # Nil)
       \/ cmdPc = "waiting" /\ (ENABLED WatchCtx \/ ENABLED WaitReturn)

(***************************************************************************)
(* SanitizeCMDArgs.  A string is the sequence of its characters.            *)
(***************************************************************************)
\* The backquote character (written by name: the character itself cannot
\* stand in a string here).
Backquote == "backquote"

\* The characters the arguments are made of: a blank, a letter, and the
\* characters SanitizeCMDArgs looks for.
CmdChars == {" ", "a", ";", "&", "|", "$", "(", Backquote}

\* Longest argument, and longest argument list.
MaxArgLen == 2
MaxArgs == 2

\* strings.Contains
Contains(str, substr) ==
    \E i \in 1..(Len(str) - Len(substr) + 1) :
       SubSeq(str, i, i + Len(substr) - 1) = substr

\* reInvalidCMDChars.MatchString: the regular expression [;&|]
ReInvalidCMDCharsMatch(arg) == \E i \in 1..Len(arg) : arg[i] \in {";", "&", "|"}

\* unicode.IsSpace, for the characters used here
IsSpace(c) == c \in {" "}

RECURSIVE TrimLeft(_)
TrimLeft(str) ==
    IF str # <<>> /\ IsSpace(Head(str)) THEN TrimLeft(Tail(str)) ELSE str

RECURSIVE TrimRight(_)
TrimRight(str) ==
    IF str # <<>> /\ IsSpace(str[Len(str)])
    THEN TrimRight(SubSeq(str, 1, Len(str) - 1))
    ELSE str

TrimSpaceLeftOnly(str) == TrimLeft(str)

\* strings.TrimSpace
TrimSpace(str) == TrimRight(TrimLeft(str))

RECURSIVE SanitizeFrom(_, _)
\* SanitizeCMDArgs: the loop from index i on; args is the caller's slice,
\* which the loop overwrites as it goes.
SanitizeFrom(args, i) ==
    IF i > Len(args) THEN [sanitizedArgs |-> args, err |-> Nil, args |-> args]
    ELSE IF ReInvalidCMDCharsMatch(args[i])
    THEN [sanitizedArgs |-> Nil, err |-> Err("invalid characters in args"),
          args |-> args]
    ELSE IF Contains(args[i], <<"$", "(">>) \/ Contains(args[i], <<Backquote>>)
    THEN [sanitizedArgs |-> Nil, err |-> Err("invalid command substitution in args"),
          args |-> args]
    ELSE SanitizeFrom([args EXCEPT ![i] = TrimSpace(args[i])], i + 1)

\* SanitizeCMDArgs
SanitizeCMDArgs(args) == SanitizeFrom(args, 1)

CallSanitizeCMDArgs ==
    /\ fn = None
    /\ \E args \in SeqsUpTo(SeqsUpTo(CmdChars, MaxArgLen), MaxArgs) :
          fn' = [op |-> "SanitizeCMDArgs", in |-> args, out |-> SanitizeCMDArgs(args)]
    /\ UNCHANGED notFn

InitArgs == X509Off /\ FnOff /\ CmdOff /\ KafkaOff /\ ThrottleOff /\ ChainOff /\ SignalOff /\ JournalOff /\ Cmd2Off

NextArgs == CallSanitizeCMDArgs

SpecArgs == InitArgs /\ [][NextArgs]_vars

\* The argument holds ';', '&', '|', a backquote, or '$' followed by '('.
Forbidden(arg) ==
    \E i \in 1..Len(arg) :
       \/ arg[i] \in {";", "&", "|", "backquote"}
       \/ arg[i] = "$" /\ i < Len(arg) /\ arg[i + 1] = "("

\* out is arg without its leading and trailing blanks.
IsTrimOf(out, arg) ==
    /\ \E a \in 0..Len(arg) :
          /\ a + Len(out) <= Len(arg)
          /\ out = SubSeq(arg, a + 1, a + Len(out))
          /\ \A i \in 1..Len(arg) : (i <= a \/ i > a + Len(out)) => arg[i] = " "
    /\ out # <<>> => (out[1] # " " /\ out[Len(out)] # " ")

(***************************************************************************)
(* C14: SanitizeCMDArgs returns an error and no argument list whenever an   *)
(* argument contains ';', '&', '|', '$(' or a backquote; otherwise it       *)
(* returns the arguments in the same number and order, each without its     *)
(* leading and trailing whitespace.                                         *)
(***************************************************************************)
C14_ArgsRefusedOrTrimmed ==
    (fn # None /\ fn.op = "SanitizeCMDArgs") =>
       IF \E i \in 1..Len(fn.in) : Forbidden(fn.in[i])
       THEN fn.out.err # Nil /\ fn.out.sanitizedArgs = Nil
       ELSE /\ fn.out.err = Nil
            /\ Len(fn.out.sanitizedArgs) = Len(fn.in)
            /\ \A i \in 1..Len(fn.in) : IsTrimOf(fn.out.sanitizedArgs[i], fn.in[i])

\* Two arguments with blanks on either side and a '$' that opens nothing
\* were returned trimmed.
C14_Witness ==
    /\ fn # None
    /\ fn.op = "SanitizeCMDArgs"
    /\ fn.in = << <<" ", "a">>, <<"$", " ">> >>
    /\ fn.out.sanitizedArgs = << <<"a">>, <<"$">> >>
    /\ fn.out.err = Nil

(***************************************************************************)
(* ParseObjectIdentifier.  A string is the sequence of its characters.      *)
(***************************************************************************)
\* The line feed character, written by name.
Newline == "newline"

\* The characters the inputs are made of: three digits, the dot, a sign, a
\* letter and the line feed.
OidChars == {"0", "1", "9", ".", "-", "a", Newline}

\* Longest input.
MaxOidLen == 5

\* The class \d of the regular expression: an ASCII digit.
IsDigit(c) == c \in {"0", "1", "9"}

\* The value of an ASCII digit.
DigitVal(c) == CASE c = "0" -> 0 [] c = "1" -> 1 [] c = "9" -> 9

RECURSIVE DigitsEnd(_, _)
\* \d+ from index i on: the index after the longest run of digits.
DigitsEnd(val, i) ==
    IF i <= Len(val) /\ IsDigit(val[i]) THEN DigitsEnd(val, i + 1) ELSE i

RECURSIVE OidGroups(_, _)
\* (?:\.\d+){0,}$ from index i on: groups of a dot and digits, up to the
\* end of the text.
OidGroups(val, i) ==
    IF i > Len(val) THEN TRUE
    ELSE /\ val[i] = "."
         /\ DigitsEnd(val, i + 1) > i + 1
         /\ OidGroups(val, DigitsEnd(val, i + 1))

\* The expression without its groups and its end anchor: ^\d
RegexpOidFormatPrefix(val) == val # <<>> /\ IsDigit(val[1])

\* RegexpOidFormat.MatchString: ^\d(?:\.\d+){0,}$
RegexpOidFormatMatch(val) ==
    /\ val # <<>>
    /\ IsDigit(val[1])
    /\ OidGroups(val, 2)

RECURSIVE SplitFrom(_, _, _)
\* strings.Split(val, "."): cur is the component being read at index i.
SplitFrom(val, i, cur) ==
    IF i > Len(val) THEN <<cur>>
    ELSE IF val[i] = "." THEN <<cur>> \o SplitFrom(val, i + 1, <<>>)
    ELSE SplitFrom(val, i + 1, Append(cur, val[i]))

StringsSplit(val) == SplitFrom(val, 1, <<>>)

RECURSIVE AtoiDigits(_, _)
\* The digits of strconv.Atoi, most significant first; acc is the value read
\* so far.  (A value of at most MaxOidLen digits is within the range of int.)
AtoiDigits(str, acc) ==
    IF str = <<>> THEN [v |-> acc, err |-> Nil]
    ELSE IF ~IsDigit(Head(str)) THEN [v |-> 0, err |-> Err("invalid syntax")]
    ELSE AtoiDigits(Tail(str), acc * 10 + DigitVal(Head(str)))

\* strconv.Atoi: an optional sign, then one or more digits.
Atoi(str) ==
    IF str = <<>> THEN [v |-> 0, err |-> Err("invalid syntax")]
    ELSE IF Head(str) = "-"
    THEN IF Tail(str) = <<>> THEN [v |-> 0, err |-> Err("invalid syntax")]
         ELSE Only({ [v |-> 0 - r.v, err |-> r.err] : r \in {AtoiDigits(Tail(str), 0)} })
    ELSE AtoiDigits(str, 0)

RECURSIVE OidFrom(_, _, _)
\* ParseObjectIdentifier: the loop over vals from index i on.
OidFrom(vals, i, oid) ==
    IF i > Len(vals) THEN [oid |-> oid, err |-> Nil]
    ELSE IF Atoi(vals[i]).err # Nil
    THEN [oid |-> Nil, err |-> Err("parse oid")]
    ELSE OidFrom(vals, i + 1, Append(oid, Atoi(vals[i]).v))

\* ParseObjectIdentifier
ParseObjectIdentifier(val) ==
    IF ~RegexpOidFormatMatch(val)
    THEN [oid |-> Nil, err |-> Err("invalid oid format")]
    ELSE OidFrom(StringsSplit(val), 1, <<>>)

CallParseObjectIdentifier ==
    /\ fn = None
    /\ \E val \in SeqsUpTo(OidChars, MaxOidLen) :
          fn' = [op |-> "ParseObjectIdentifier", in |-> val,
                 out |-> ParseObjectIdentifier(val)]
    /\ UNCHANGED notFn

InitOid == X509Off /\ FnOff /\ CmdOff /\ KafkaOff /\ ThrottleOff /\ ChainOff /\ SignalOff /\ JournalOff /\ Cmd2Off

NextOid == CallParseObjectIdentifier

SpecOid == InitOid /\ [][NextOid]_vars

\* val is one digit followed by groups of a dot and one or more digits:
\* digits and dots only, a single digit in front, no dot at the end and no
\* two dots in a row.
OidShaped(val) ==
    /\ val # <<>>
    /\ \A i \in 1..Len(val) : val[i] \in {"0", "1", "9", "."}
    /\ val[1] # "."
    /\ Len(val) > 1 => val[2] = "."
    /\ val[Len(val)] # "."
    /\ \A i \in 1..(Len(val) - 1) : ~(val[i] = "." /\ val[i + 1] = ".")

\* The positions of the dots of val, with a position before the first
\* character and one after the last.
DotsOf(val) == {0, Len(val) + 1} \cup {i \in 1..Len(val) : val[i] = "."}

\* The k-th component of val runs between the k-th and the next of DotsOf.
KthDot(val, k) ==
    CHOOSE d \in DotsOf(val) : Cardinality({e \in DotsOf(val) : e < d}) = k - 1

RECURSIVE Pow10(_)
Pow10(e) == IF e = 0 THEN 1 ELSE 10 * Pow10(e - 1)

RECURSIVE SumOver(_, _, _)
\* The decimal value of the digits of val at the indices of S, the last of
\* them at index hi.
SumOver(val, S, hi) ==
    IF S = {} THEN 0
    ELSE LET i == CHOOSE j \in S : TRUE
         IN  (CASE val[i] = "0" -> 0 [] val[i] = "1" -> 1 [] val[i] = "9" -> 9)
                * Pow10(hi - i) + SumOver(val, S \ {i}, hi)

DecimalOfComponent(val, k) ==
    SumOver(val, (KthDot(val, k) + 1)..(KthDot(val, k + 1) - 1),
            KthDot(val, k + 1) - 1)

(***************************************************************************)
(* C15: ParseObjectIdentifier returns an error and a nil identifier for     *)
(* every string that is not one digit followed by zero or more groups of a  *)
(* dot and one or more digits; for every string it accepts it returns the   *)
(* arcs equal, in order, to the decimal values of the dot-separated         *)
(* components.                                                              *)
(***************************************************************************)
C15_OidRefusedOrParsed ==
    (fn # None /\ fn.op = "ParseObjectIdentifier") =>
       /\ ~OidShaped(fn.in) => (fn.out.err # Nil /\ fn.out.oid = Nil)
       /\ fn.out.err = Nil =>
             /\ Len(fn.out.oid) = Cardinality(DotsOf(fn.in)) - 1
             /\ \A k \in 1..Len(fn.out.oid) :
                   fn.out.oid[k] = DecimalOfComponent(fn.in, k)

\* "1.091" was accepted as the arcs 1, 91.
C15_Witness ==
    /\ fn # None
    /\ fn.op = "ParseObjectIdentifier"
    /\ fn.in = <<"1", ".", "0", "9", "1">>
    /\ fn.out.err = Nil
    /\ fn.out.oid = <<1, 91>>

(***************************************************************************)
(* The signature engine (RSA PKCS#1 v1.5, RSA-PSS, ECDSA, Ed25519,          *)
(* Schnorr).  The functions are the ones sign_test.go calls; a key pair is  *)
(* its number, a digest is the term of the message it was computed from,    *)
(* and a signature is the term of the key and digest it was made with: two  *)
(* digests are equal only for equal messages, and a signature opens only    *)
(* with the key pair that made it.                                          *)
(***************************************************************************)
Schemes == {"RSAPKCS1v15WithSHA256", "RSAPSSWithSHA256", "ECDSAWithSHA256",
            "Ed25519WithSHA512", "SchnorrSha256"}

\* The key pairs, the longest message and the random salts.
MaxKeyPairs == 2
MaxMsgLen == 2
MaxSalt == 2

KeyPairs == 1..MaxKeyPairs
Msgs == SeqsUpTo({0, 1}, MaxMsgLen)

\* The private and the public half of key pair k.
PriKey(k) == [pri |-> k]
PubKey(k) == [pub |-> k]

\* The digest each scheme signs.
HashOf(scheme, msg) ==
    IF scheme = "Ed25519WithSHA512" THEN [sha512 |-> msg] ELSE [sha256 |-> msg]

\* The schemes that draw a salt or nonce for each signature.
Randomized(scheme) == scheme \in {"RSAPSSWithSHA256", "ECDSAWithSHA256", "SchnorrSha256"}

\* SignBy<scheme>(prikey, msg): rnd is the salt drawn by a randomized scheme.
SignBy(scheme, prikey, msg, rnd) ==
    [scheme |-> scheme,
     by     |-> prikey.pri,
     over   |-> HashOf(scheme, msg),
     salt   |-> IF Randomized(scheme) THEN rnd ELSE 0]

\* A signature some of whose bytes were changed: it opens to no digest.
Corrupted(sig) == [sig EXCEPT !.over = [garbled |-> sig.over]]

\* The check of the primitive: the signature was made by the key pair of
\* pubkey over the digest of msg.
Opens(scheme, pubkey, msg, sig) ==
    /\ sig.scheme = scheme
    /\ sig.by = pubkey.pub
    /\ sig.over = HashOf(scheme, msg)

\* A verification that never looks at the key.
VerifyByAnyKey(scheme, pubkey, msg, sig) ==
    IF sig.scheme = scheme /\ sig.over = HashOf(scheme, msg)
    THEN [valid |-> TRUE, err |-> Nil]
    ELSE [valid |-> FALSE, err |-> Err("invalid signature")]

\* VerifyBy<scheme>(pubkey, msg, sig).  VerifyByECDSAWithSHA256 answers with
\* a boolean only; the others with an error.
VerifyBy(scheme, pubkey, msg, sig) ==
    IF Opens(scheme, pubkey, msg, sig)
    THEN [valid |-> TRUE, err |-> Nil]
    ELSE [valid |-> FALSE,
          err |-> IF scheme = "ECDSAWithSHA256" THEN Nil
                  ELSE IF scheme \in {"RSAPKCS1v15WithSHA256", "RSAPSSWithSHA256"}
                  THEN Err("verification error")
                  ELSE Err("invalid signature")]

CallSignBy ==
    /\ fn = None
    /\ \E scheme \in Schemes, k \in KeyPairs, msg \in Msgs, rnd \in 1..MaxSalt :
          fn' = [op |-> "SignBy", scheme |-> scheme, key |-> k, msg |-> msg,
                 sig |-> SignBy(scheme, PriKey(k), msg, rnd)]
    /\ UNCHANGED notFn

\* The signature, as made or corrupted, is verified against a message and a
\* public key.
CallVerifyBy ==
    /\ fn # None
    /\ fn.op = "SignBy"
    /\ \E k \in KeyPairs, msg \in Msgs, sig \in {fn.sig, Corrupted(fn.sig)} :
          fn' = [op |-> "VerifyBy", scheme |-> fn.scheme, signed |-> fn,
                 key |-> k, msg |-> msg, sig |-> sig,
                 out |-> VerifyBy(fn.scheme, PubKey(k), msg, sig)]
    /\ UNCHANGED notFn

InitSign == X509Off /\ FnOff /\ CmdOff /\ KafkaOff /\ ThrottleOff /\ ChainOff /\ SignalOff /\ JournalOff /\ Cmd2Off

NextSign == CallSignBy \/ CallVerifyBy

SpecSign == InitSign /\ [][NextSign]_vars

KeyAlgs == {"rsa", "ecdsa", "ed25519"}

\* The bytes key material is made of, and its greatest length.
KeyBytes == {0, 1, 128, 255}
MaxKeyBytes == 3

\* The keys: kind is "pri" or "pub".
SupportedKeys ==
    [kind : {"pri", "pub"}, alg : KeyAlgs,
     bytes : SeqsUpTo(KeyBytes, MaxKeyBytes) \ {<<>>}]

\* The byte naming the algorithm in the encoding.
AlgId(alg) == CASE alg = "rsa" -> 1 [] alg = "ecdsa" -> 2 [] alg = "ed25519" -> 3

AlgOfId(id) == CASE id = 1 -> "rsa" [] id = 2 -> "ecdsa" [] id = 3 -> "ed25519"

\* The tag of the material: OCTET STRING, BIT STRING.
MaterialTag(kind) == IF kind = "pri" THEN 4 ELSE 3

\* Prikey2Der, Pubkey2Der
Key2Der(key) ==
    [der |-> <<48, Len(key.bytes) + 3, AlgId(key.alg),
               MaterialTag(key.kind), Len(key.bytes)>> \o key.bytes,
     err |-> Nil]

\* Der2Prikey, Der2Pubkey
Der2Key(kind, der) ==
    IF /\ Len(der) > 5
       /\ der[1] = 48
       /\ der[2] = Len(der) - 2
       /\ der[3] \in {1, 2, 3}
       /\ der[4] = MaterialTag(kind)
       /\ der[5] = Len(der) - 5
    THEN [key |-> [kind |-> kind, alg |-> AlgOfId(der[3]),
                   bytes |-> SubSeq(der, 6, Len(der))],
          err |-> Nil]
    ELSE [key |-> Nil, err |-> Err("parse key")]

\* The padding character of base64, after the 64 of the alphabet.
Pad == 64

RECURSIVE Base64EncodeNoPad(_)
\* The encoding without the padding.
Base64EncodeNoPad(b) ==
    IF b = <<>> THEN <<>>
    ELSE IF Len(b) = 1
    THEN <<b[1] \div 4, (b[1] % 4) * 16>>
    ELSE IF Len(b) = 2
    THEN <<b[1] \div 4, (b[1] % 4) * 16 + b[2] \div 16, (b[2] % 16) * 4>>
    ELSE <<b[1] \div 4, (b[1] % 4) * 16 + b[2] \div 16,
           (b[2] % 16) * 4 + b[3] \div 64, b[3] % 64>>
         \o Base64EncodeNoPad(SubSeq(b, 4, Len(b)))

RECURSIVE Base64Encode(_)
\* base64.StdEncoding, as pem.Encode writes the body: three bytes become
\* four characters, the last group is padded.
Base64Encode(b) ==
    IF b = <<>> THEN <<>>
    ELSE IF Len(b) = 1
    THEN <<b[1] \div 4, (b[1] % 4) * 16, Pad, Pad>>
    ELSE IF Len(b) = 2
    THEN <<b[1] \div 4, (b[1] % 4) * 16 + b[2] \div 16, (b[2] % 16) * 4, Pad>>
    ELSE <<b[1] \div 4, (b[1] % 4) * 16 + b[2] \div 16,
           (b[2] % 16) * 4 + b[3] \div 64, b[3] % 64>>
         \o Base64Encode(SubSeq(b, 4, Len(b)))

RECURSIVE Base64Decode(_)
\* base64.StdEncoding, as pem.Decode reads the body: not ok for a text that
\* is no padded base64.
Base64Decode(c) ==
    IF c = <<>> THEN [ok |-> TRUE, bytes |-> <<>>]
    ELSE IF Len(c) < 4 \/ c[1] = Pad \/ c[2] = Pad THEN [ok |-> FALSE, bytes |-> <<>>]
    ELSE IF c[3] = Pad
    THEN [ok |-> Len(c) = 4 /\ c[4] = Pad /\ c[2] % 16 = 0,
          bytes |-> <<c[1] * 4 + c[2] \div 16>>]
    ELSE IF c[4] = Pad
    THEN [ok |-> Len(c) = 4 /\ c[3] % 4 = 0,
          bytes |-> <<c[1] * 4 + c[2] \div 16, (c[2] % 16) * 16 + c[3] \div 4>>]
    ELSE Only({ [ok |-> rest.ok,
                 bytes |-> <<c[1] * 4 + c[2] \div 16,
                             (c[2] % 16) * 16 + c[3] \div 4,
                             (c[3] % 4) * 64 + c[4]>> \o rest.bytes] :
                rest \in {Base64Decode(SubSeq(c, 5, Len(c)))} })

\* PrikeyDer2Pem, PubkeyDer2Pem
Der2Pem(kind, der) ==
    [type |-> IF kind = "pri" THEN "PRIVATE KEY" ELSE "PUBLIC KEY",
     body |-> Base64Encode(der)]

\* Pem2Der: the bytes of the block, whatever its type.
Pem2Der(pem) ==
    IF ~Base64Decode(pem.body).ok \/ Base64Decode(pem.body).bytes = <<>>
    THEN [der |-> <<>>, err |-> Err("pem decode")]
    ELSE [der |-> Base64Decode(pem.body).bytes, err |-> Nil]

\* Prikey2Pem, Pubkey2Pem
Key2Pem(key) == [pem |-> Der2Pem(key.kind, Key2Der(key).der), err |-> Nil]

\* Pem2Prikey, Pem2Pubkey
Pem2Key(kind, pem) ==
    IF Pem2Der(pem).err # Nil THEN [key |-> Nil, err |-> Pem2Der(pem).err]
    ELSE Der2Key(kind, Pem2Der(pem).der)

\* A key is encoded and the encodings are decoded and encoded again, as
\* TestTLSPrivatekey and TestTLSPublickey do.
CallKeyRoundTrip ==
    /\ fn = None
    /\ \E key \in SupportedKeys :
          fn' = [op      |-> "KeyRoundTrip",
                 key     |-> key,
                 der     |-> Key2Der(key),
                 pem     |-> Key2Pem(key),
                 pem2der |-> Pem2Der(Key2Pem(key).pem),
                 der2key |-> Der2Key(key.kind, Key2Der(key).der),
                 pem2key |-> Pem2Key(key.kind, Key2Pem(key).pem)]
    /\ UNCHANGED notFn

InitKeys == X509Off /\ FnOff /\ CmdOff /\ KafkaOff /\ ThrottleOff /\ ChainOff /\ SignalOff /\ JournalOff /\ Cmd2Off

NextKeys == CallKeyRoundTrip

SpecKeys == InitKeys /\ [][NextKeys]_vars

MaxOffset == 2
MaxMsgs == 4
MaxKTime == 5

\* Capacity of beforeChan and of afterChan.
ChanCap == 2

\* The caller's CommitFilterCfg.
IntervalNum == 1
IntervalDuration == 2

\* scanInterval, in seconds
ScanInterval == 3

\* KafkaCli.CommitWithMsg: blocks while beforeChan is full.
CommitWithMsg ==
    /\ made < MaxMsgs
    /\ Len(beforeChan) < ChanCap
    /\ \E p \in Partitions, o \in 1..MaxOffset :
          beforeChan' = Append(beforeChan,
                               [id |-> made + 1, Partition |-> p, Offset |-> o])
    /\ made' = made + 1
    /\ UNCHANGED <<kmsgSlots, afterChan, pool, ktime, lastScanT, dry, received, scan>>
    /\ UNCHANGED notFilter

\* A second passes.
KTick ==
    /\ ktime < MaxKTime
    /\ ktime' = ktime + 1
    /\ UNCHANGED <<kmsgSlots, beforeChan, afterChan, pool, lastScanT, dry, made,
                   received, scan>>
    /\ UNCHANGED notFilter

\* The record made for the first message of a partition.
NewRecord(kmsg, t0) ==
    [num |-> 1, lastCommitT |-> t0, lastMsg |-> kmsg, isCommited |-> FALSE]

\* The message the record keeps once kmsg has come: whatever came last.
KeptNewest(kmsg, record) == kmsg

\* The message the record keeps once kmsg has come.
Kept(kmsg, record) ==
    IF kmsg.Offset <= record.lastMsg.Offset THEN record.lastMsg ELSE kmsg

\* The message given back to KMsgPool once kmsg has come.
Discarded(kmsg, record) ==
    IF kmsg.Offset <= record.lastMsg.Offset THEN kmsg ELSE record.lastMsg

\* The record of kmsg's partition once kmsg has come.
Recorded(kmsg, record) ==
    [num         |-> record.num + 1,
     lastCommitT |-> record.lastCommitT,
     lastMsg     |-> Kept(kmsg, record),
     isCommited  |-> IF kmsg.Offset <= record.lastMsg.Offset
                     THEN record.isCommited ELSE FALSE]

\* The condition under which filterSlots2AfterChan hands a record on.
ToCommit(record, t0) ==
    /\ record.isCommited
    /\ (record.num > IntervalNum \/ t0 - record.lastCommitT > IntervalDuration)

\* The orders in which the range over the map may visit the partitions.
ScanOrders == {<<0, 1>>, <<1, 0>>}

RECURSIVE FilterSlots2AfterChan(_, _, _, _, _)
\* filterSlots2AfterChan: the loop over kmsgSlots in the given order, from
\* index i on.
FilterSlots2AfterChan(order, i, t0, slots, after) ==
    IF i > Len(order) THEN [kmsgSlots |-> slots, afterChan |-> after]
    ELSE IF /\ slots[order[i]] # None
            /\ ToCommit(slots[order[i]], t0)
            /\ ~dry
            /\ Len(after) < ChanCap
    THEN FilterSlots2AfterChan(order, i + 1, t0,
            [slots EXCEPT ![order[i]] =
                [num |-> 0, lastCommitT |-> t0, lastMsg |-> @.lastMsg,
                 isCommited |-> TRUE]],
            Append(after, slots[order[i]].lastMsg))
    ELSE FilterSlots2AfterChan(order, i + 1, t0, slots, after)

\* The slots once kmsg, of a partition that has a record, is recorded.
SlotsWith(kmsg) ==
    [kmsgSlots EXCEPT ![kmsg.Partition] = Recorded(kmsg, @)]

\* runFilterBeforeChan: one turn of the loop over beforeChan.
RunFilterBeforeChan ==
    /\ beforeChan # <<>>
    /\ beforeChan' = Tail(beforeChan)
    /\ received' = Append(received, Head(beforeChan))
    /\ IF kmsgSlots[Head(beforeChan).Partition] = None
       THEN /\ kmsgSlots' = [kmsgSlots EXCEPT ![Head(beforeChan).Partition] =
                                NewRecord(Head(beforeChan), ktime)]
            /\ UNCHANGED <<afterChan, pool, scan>>
       ELSE /\ pool' = Append(pool, Discarded(Head(beforeChan),
                                  kmsgSlots[Head(beforeChan).Partition]))
            /\ IF ktime - lastScanT > ScanInterval
               THEN \E order \in ScanOrders :
                       /\ kmsgSlots' = FilterSlots2AfterChan(order, 1, ktime,
                                          SlotsWith(Head(beforeChan)), afterChan).kmsgSlots
                       /\ afterChan' = FilterSlots2AfterChan(order, 1, ktime,
                                          SlotsWith(Head(beforeChan)), afterChan).afterChan
                       /\ scan' = [now |-> ktime,
                                   before |-> SlotsWith(Head(beforeChan)),
                                   after |-> kmsgSlots',
                                   room |-> ChanCap - Len(afterChan),
                                   sent |-> afterChan']
               ELSE /\ kmsgSlots' = SlotsWith(Head(beforeChan))
                    /\ UNCHANGED <<afterChan, scan>>
    /\ UNCHANGED <<ktime, lastScanT, dry, made>>
    /\ UNCHANGED notFilter

InitFilter ==
    /\ X509Off
    /\ Cmd2Off
    /\ JournalOff
    /\ SignalOff
    /\ ChainOff
    /\ ThrottleOff
    /\ FnOff
    /\ CmdOff
    /\ CliOff
    /\ kmsgSlots = [p \in Partitions |-> None]
    /\ beforeChan = <<>>
    /\ afterChan = <<>>
    /\ pool = <<>>
    /\ ktime = 0
    /\ lastScanT = 0
    /\ dry \in BOOLEAN
    /\ made = 0
    /\ received = <<>>
    /\ scan = None

NextFilter ==
    \/ CommitWithMsg
    \/ KTick
    \/ RunFilterBeforeChan

SpecFilter == InitFilter /\ [][NextFilter]_vars

\* The messages of a channel.
InChan(ch) == {ch[i] : i \in 1..Len(ch)}

(***************************************************************************)
(* C18: when the commit filter scans its slots, every partition record      *)
(* that has counted more than IntervalNum messages, or whose last commit is *)
(* older than IntervalDuration, has its latest message put on afterChan     *)
(* (unless dry mode is on or afterChan is full) and its counter and         *)
(* last-commit time reset.                                                  *)
(***************************************************************************)
C18_ScanCommitsWhatIsDue ==
    scan # None =>
       \A p \in Partitions :
          (/\ scan.before[p] # None
           /\ \/ scan.before[p].num > IntervalNum
              \/ scan.now - scan.before[p].lastCommitT > IntervalDuration
           /\ ~dry
           /\ scan.room >= Cardinality(Partitions))
          => /\ scan.before[p].lastMsg \in InChan(scan.sent)
             /\ scan.after[p].num = 0
             /\ scan.after[p].lastCommitT = scan.now

\* How often msg was given to KMsgPool.Put.
PutCount(msg) == Cardinality({i \in 1..Len(pool) : pool[i] = msg})

\* The messages of partition p that runFilterBeforeChan has taken.
ReceivedOf(p) == {received[i] : i \in {j \in 1..Len(received) : received[j].Partition = p}}

(***************************************************************************)
(* C19: after runFilterBeforeChan has processed any sequence of messages,   *)
(* the slot of each partition holds the message with the greatest offset    *)
(* received so far for that partition, and every other message received has *)
(* been returned to KMsgPool exactly once.                                  *)
(***************************************************************************)
C19_SlotHoldsGreatestOthersPutOnce ==
    \A p \in Partitions :
       ReceivedOf(p) # {} =>
          /\ kmsgSlots[p] # None
          /\ kmsgSlots[p].lastMsg \in ReceivedOf(p)
          /\ \A m \in ReceivedOf(p) :
                /\ m.Offset <= kmsgSlots[p].lastMsg.Offset
                /\ m # kmsgSlots[p].lastMsg => PutCount(m) = 1

\* Partition 0 has received the offsets 1, 2, 1 and 2: its slot holds the
\* first message of offset 2, and the three others were put back.
C19_Witness ==
    /\ Len(received) = 4
    /\ \A i \in 1..4 : received[i].Partition = 0
    /\ received[1].Offset = 1 /\ received[2].Offset = 2
    /\ received[3].Offset = 1 /\ received[4].Offset = 2
    /\ kmsgSlots[0].lastMsg = received[2]
    /\ pool = <<received[1], received[3], received[4]>>

(***************************************************************************)
(* The kafka client and its goroutines.  A goroutine is "unstarted", at its *)
(* select ("select"), about to send the message it has read on the channel  *)
(* Messages() returned ("put"), or "exited".  stopChan has no buffer: the   *)
(* send of Close() and the receive of one goroutine are one step.  Closing  *)
(* the cluster consumer closes its Notifications() and Messages() channels. *)
(***************************************************************************)
\* Capacity of the channel Messages() returns.
MsgChanCap == 1

\* The goroutines started by Messages().
Consumers == {"Messages1", "Messages2"}

\* The caller calls Messages(ctx), which starts a goroutine.
Messages(g) ==
    /\ gor[g] = "unstarted"
    /\ gor' = [gor EXCEPT ![g] = "select"]
    /\ UNCHANGED <<kctx, closePc, cliClosed, msgChan>>
    /\ UNCHANGED notCli

\* The caller cancels the context.
KCtxDone ==
    /\ kctx = "live"
    /\ kctx' = "done"
    /\ UNCHANGED <<closePc, gor, cliClosed, msgChan>>
    /\ UNCHANGED notCli

\* The caller calls Close(), which begins by sending on stopChan.
Close ==
    /\ closePc = "idle"
    /\ closePc' = "sending"
    /\ UNCHANGED <<kctx, gor, cliClosed, msgChan>>
    /\ UNCHANGED notCli

\* case <-k.stopChan: a goroutine at its select takes what Close() sends,
\* and returns.
StopChanRecv(g) ==
    /\ gor[g] = "select"
    /\ closePc = "sending"
    /\ gor' = [gor EXCEPT ![g] = "exited"]
    /\ closePc' = "closing"
    /\ UNCHANGED <<kctx, cliClosed, msgChan>>
    /\ UNCHANGED notCli

\* k.cli.Close(), and the return of Close().
CliClose ==
    /\ closePc = "closing"
    /\ cliClosed' = TRUE
    /\ closePc' = "returned"
    /\ UNCHANGED <<kctx, gor, msgChan>>
    /\ UNCHANGED notCli

\* case <-ctx.Done(): the goroutine returns.
CtxDoneRecv(g) ==
    /\ gor[g] = "select"
    /\ kctx = "done"
    /\ gor' = [gor EXCEPT ![g] = "exited"]
    /\ UNCHANGED <<kctx, closePc, cliClosed, msgChan>>
    /\ UNCHANGED notCli

\* The receive from the cluster consumer's channel finds it closed (!ok):
\* the goroutine returns.  runCommitor reads afterChan, which nothing closes.
ChanClosedRecv(g) ==
    /\ gor[g] = "select"
    /\ g # "runCommitor"
    /\ cliClosed
    /\ gor' = [gor EXCEPT ![g] = "exited"]
    /\ UNCHANGED <<kctx, closePc, cliClosed, msgChan>>
    /\ UNCHANGED notCli

\* The receive of a value: a notification (logged after a sleep), a message
\* of the topic (copied into a KafkaMsg to send on), or a message of
\* afterChan (put back to the pool and marked, unless dry).
ChanRecv(g) ==
    /\ gor[g] = "select"
    /\ IF g = "runCommitor"
       THEN /\ afterChan # <<>>
            /\ afterChan' = Tail(afterChan)
            /\ pool' = IF dry THEN pool ELSE Append(pool, Head(afterChan))
            /\ UNCHANGED gor
       ELSE /\ ~cliClosed
            /\ gor' = [gor EXCEPT ![g] = IF g \in Consumers THEN "put" ELSE "select"]
            /\ UNCHANGED <<afterChan, pool>>
    /\ UNCHANGED <<kctx, closePc, cliClosed, msgChan>>
    /\ UNCHANGED <<kmsgSlots, beforeChan, ktime, lastScanT, made, dry, received, scan>>
    /\ UNCHANGED notKafka

\* msgChan <- kmsg: blocks while the channel is full.
MsgChanSend(g) ==
    /\ gor[g] = "put"
    /\ msgChan < MsgChanCap
    /\ msgChan' = msgChan + 1
    /\ gor' = [gor EXCEPT ![g] = "select"]
    /\ UNCHANGED <<kctx, closePc, cliClosed>>
    /\ UNCHANGED notCli

\* The caller takes a message from the channel Messages() returned.
MsgChanRead ==
    /\ msgChan > 0
    /\ msgChan' = msgChan - 1
    /\ UNCHANGED <<kctx, closePc, gor, cliClosed>>
    /\ UNCHANGED notCli

\* NewKafkaCliWithGroupId has returned: ListenNotifications and runCommitor
\* run.
InitCli ==
    /\ X509Off
    /\ Cmd2Off
    /\ JournalOff
    /\ SignalOff
    /\ ChainOff
    /\ ThrottleOff
    /\ FnOff
    /\ CmdOff
    /\ FilterOff
    /\ kctx = "live"
    /\ closePc = "idle"
    /\ gor = [g \in Goroutines |-> IF g \in Consumers THEN "unstarted" ELSE "select"]
    /\ cliClosed = FALSE
    /\ msgChan = 0

NextCli ==
    \/ \E g \in Consumers : Messages(g)
    \/ KCtxDone
    \/ Close
    \/ \E g \in Goroutines : StopChanRecv(g)
    \/ CliClose
    \/ \E g \in Goroutines : CtxDoneRecv(g)
    \/ \E g \in Goroutines : ChanClosedRecv(g)
    \/ \E g \in Goroutines : ChanRecv(g)
    \/ \E g \in Consumers : MsgChanSend(g)
    \/ MsgChanRead

SpecCli == InitCli /\ [][NextCli]_vars

(***************************************************************************)
(* C20: Close() does not block for ever, and after it has been called every *)
(* goroutine the client started exits: while Close() waits to send on       *)
(* stopChan a goroutine is left that can take what it sends, and once       *)
(* Close() has returned every goroutine at its select can return (its       *)
(* context is done or its channel is closed).                               *)
(***************************************************************************)
C20_CloseReturnsAndAllExit ==
    /\ closePc = "sending" => \E g \in Goroutines : gor[g] # "exited"
    /\ closePc = "returned" =>
          \A g \in Goroutines :
             gor[g] = "select" => (ENABLED CtxDoneRecv(g) \/ ENABLED ChanClosedRecv(g))

(***************************************************************************)
(* The throttle.  tokensChan is the number of tokens it holds; the          *)
(* goroutine of runWithCtx is in its loop of NPerSec sends ("fill"), at the *)
(* select that waits for the ticker ("wait"), or has returned ("exited").   *)
(* A select takes any one of the cases that are ready.                      *)
(***************************************************************************)
\* The greatest Max and NPerSec of a ThrottleCfg, and the most ticks counted.
MaxTokens == 2
MaxNPerSec == 2
MaxThTicks == 2

\* Where the goroutine goes on after i sends: the loop, or the ticker.
AfterSends(i) == IF i < thCfg.NPerSec THEN "fill" ELSE "wait"

\* A send that forgets to count.
ThFillTokenNoCount ==
    /\ thPc = "fill"
    /\ tokensChan < thCfg.Max
    /\ tokensChan' = tokensChan + 1
    /\ UNCHANGED <<thCfg, thPc, thI, tickerC, thStopped, thCtx, winTicks, winAllowed,
                   lastAllow, heldAtExit, afterExit>>
    /\ UNCHANGED notThrottle

\* case t.tokensChan <- t.token: there is room for a token.
ThFillToken ==
    /\ thPc = "fill"
    /\ tokensChan < thCfg.Max
    /\ tokensChan' = tokensChan + 1
    /\ thI' = thI + 1
    /\ thPc' = AfterSends(thI + 1)
    /\ UNCHANGED <<thCfg, tickerC, thStopped, thCtx, winTicks, winAllowed,
                   lastAllow, heldAtExit, afterExit>>
    /\ UNCHANGED notThrottle

\* default: no other case is ready.
ThFillDefault ==
    /\ thPc = "fill"
    /\ tokensChan = thCfg.Max
    /\ thCtx = "live"
    /\ ~thStopped
    /\ thI' = thI + 1
    /\ thPc' = AfterSends(thI + 1)
    /\ UNCHANGED <<thCfg, tokensChan, tickerC, thStopped, thCtx, winTicks,
                   winAllowed, lastAllow, heldAtExit, afterExit>>
    /\ UNCHANGED notThrottle

\* An exit that looks at the context only.
ThExitCtxOnly ==
    /\ thPc \in {"fill", "wait"}
    /\ thCtx = "done"
    /\ thPc' = "exited"
    /\ heldAtExit' = tokensChan
    /\ UNCHANGED <<thCfg, tokensChan, thI, tickerC, thStopped, thCtx, winTicks,
                   winAllowed, lastAllow, afterExit>>
    /\ UNCHANGED notThrottle

\* case <-ctx.Done(), case <-t.stopChan, in either select: return.
ThExit ==
    /\ thPc \in {"fill", "wait"}
    /\ (thCtx = "done" \/ thStopped)
    /\ thPc' = "exited"
    /\ heldAtExit' = tokensChan
    /\ UNCHANGED <<thCfg, tokensChan, thI, tickerC, thStopped, thCtx, winTicks,
                   winAllowed, lastAllow, afterExit>>
    /\ UNCHANGED notThrottle

\* case <-ticker.C: the loop of sends starts again.
ThTakeTick ==
    /\ thPc = "wait"
    /\ tickerC = 1
    /\ winTicks < MaxThTicks
    /\ tickerC' = 0
    /\ thI' = 0
    /\ thPc' = "fill"
    /\ winTicks' = winTicks + 1
    /\ UNCHANGED <<thCfg, tokensChan, thStopped, thCtx, winAllowed, lastAllow,
                   heldAtExit, afterExit>>
    /\ UNCHANGED notThrottle

\* A second has passed: the ticker puts a tick in its channel (of one
\* place), until the goroutine stops it.
TickerFires ==
    /\ thPc # "exited"
    /\ tickerC = 0
    /\ tickerC' = 1
    /\ UNCHANGED <<thCfg, tokensChan, thPc, thI, thStopped, thCtx, winTicks,
                   winAllowed, lastAllow, heldAtExit, afterExit>>
    /\ UNCHANGED notThrottle

\* Allow(): takes a token if there is one, and does not wait for one.
Allow ==
    /\ tokensChan' = IF tokensChan > 0 THEN tokensChan - 1 ELSE tokensChan
    /\ lastAllow' = [before |-> tokensChan, after |-> tokensChan',
                     ret |-> tokensChan > 0]
    /\ winAllowed' = IF tokensChan > 0 THEN winAllowed + 1 ELSE winAllowed
    /\ afterExit' = IF tokensChan > 0 /\ thPc = "exited"
                    THEN afterExit + 1 ELSE afterExit
    /\ UNCHANGED <<thCfg, thPc, thI, tickerC, thStopped, thCtx, winTicks, heldAtExit>>
    /\ UNCHANGED notThrottle

\* Close(), Stop(): close(t.stopChan).
ThClose ==
    /\ ~thStopped
    /\ thStopped' = TRUE
    /\ UNCHANGED <<thCfg, tokensChan, thPc, thI, tickerC, thCtx, winTicks,
                   winAllowed, lastAllow, heldAtExit, afterExit>>
    /\ UNCHANGED notThrottle

\* The context of the throttle is cancelled.
ThCtxDone ==
    /\ thCtx = "live"
    /\ thCtx' = "done"
    /\ UNCHANGED <<thCfg, tokensChan, thPc, thI, tickerC, thStopped, winTicks,
                   winAllowed, lastAllow, heldAtExit, afterExit>>
    /\ UNCHANGED notThrottle

\* The count of ticks and of allowed calls begins anew.
Observe ==
    /\ winTicks > 0 \/ winAllowed > 0
    /\ winTicks' = 0
    /\ winAllowed' = 0
    /\ UNCHANGED <<thCfg, tokensChan, thPc, thI, tickerC, thStopped, thCtx,
                   lastAllow, heldAtExit, afterExit>>
    /\ UNCHANGED notThrottle

\* NewThrottleWithCtx has returned.
InitThrottle ==
    /\ X509Off
    /\ Cmd2Off
    /\ JournalOff
    /\ SignalOff
    /\ ChainOff
    /\ FnOff
    /\ CmdOff
    /\ KafkaOff
    /\ thCfg \in [Max : 1..MaxTokens, NPerSec : 1..MaxNPerSec]
    /\ tokensChan = 0
    /\ thPc = "fill"
    /\ thI = 0
    /\ tickerC = 0
    /\ thStopped = FALSE
    /\ thCtx = "live"
    /\ winTicks = 0
    /\ winAllowed = 0
    /\ lastAllow = None
    /\ heldAtExit = None
    /\ afterExit = 0

NextThrottle ==
    \/ ThFillToken
    \/ ThFillDefault
    \/ ThExit
    \/ ThTakeTick
    \/ TickerFires
    \/ Allow
    \/ ThClose
    \/ ThCtxDone
    \/ Observe

SpecThrottle == InitThrottle /\ [][NextThrottle]_vars

\* A select takes each ready case with equal chance: a case that stays
\* ready is taken in the end.
SpecThrottleLive == SpecThrottle /\ WF_vars(ThExit)

\* The throttle holds at most Max tokens, a loop of sends makes at most
\* NPerSec of them, and Allow() returns true exactly when it has removed
\* one token.
ThrottleKeepsCount ==
    /\ tokensChan <= thCfg.Max
    /\ thI <= thCfg.NPerSec
    /\ lastAllow # None =>
          /\ lastAllow.ret <=> lastAllow.after = lastAllow.before - 1
          /\ ~lastAllow.ret => lastAllow.after = lastAllow.before

(***************************************************************************)
(* C21, as stated: the throttle holds at most Max tokens, the goroutine     *)
(* adds at most NPerSec tokens per tick, Allow() returns true exactly when  *)
(* it removes a token; and over any k ticks at most Max + k*NPerSec calls   *)
(* of Allow() return true.                                                  *)
(***************************************************************************)
C21_AllowedWithinMaxAndTicks ==
    /\ ThrottleKeepsCount
    /\ winAllowed <= thCfg.Max + winTicks * thCfg.NPerSec

(***************************************************************************)
(* C21, amended: the same, but over any k ticks at most                     *)
(* Max + (k+1)*NPerSec calls of Allow() return true: the loop of sends that *)
(* was begun before the first of the k ticks counts too.                    *)
(***************************************************************************)
C21_AllowedWithinMaxAndTicksAndOneLoop ==
    /\ ThrottleKeepsCount
    /\ winAllowed <= thCfg.Max + (winTicks + 1) * thCfg.NPerSec

\* With Max = 1 and NPerSec = 2, four calls were allowed over one tick.
C21_Witness ==
    /\ thCfg = [Max |-> 1, NPerSec |-> 2]
    /\ winTicks = 1
    /\ winAllowed = 4
    /\ lastAllow # None
    /\ lastAllow.ret

(***************************************************************************)
(* C22: after Close() or Stop() is called on a throttle, or its context is  *)
(* cancelled, the goroutine exits in the end; once it has exited it adds no *)
(* token, so that from then on Allow() returns true at most as many times   *)
(* as tokens were held (at most Max).                                       *)
(***************************************************************************)
C22_StoppedThrottleExits ==
    /\ (thStopped \/ thCtx = "done") ~> (thPc = "exited")
    /\ [][thPc = "exited" => (thPc' = "exited" /\ tokensChan' <= tokensChan)]_vars
    /\ [](thPc = "exited" => (afterExit <= heldAtExit /\ heldAtExit <= thCfg.Max))

\* After Close() the goroutine exited holding two tokens, and both were
\* given out.
C22_Witness ==
    /\ thStopped
    /\ thPc = "exited"
    /\ heldAtExit = 2
    /\ afterExit = 2
    /\ tokensChan = 0

(***************************************************************************)
(* CombineSortedChain, for two or more channels.  The input channels and    *)
(* the result channel have no buffer: a receive and the matching send are   *)
(* one step.  The goroutine of CombineSortedChain is in its first loop      *)
(* ("first"), sending the item it popped ("send"), reading the channel that *)
(* item came from ("recv"), in its last loop ("drain"), or has returned and *)
(* closed the result ("closed").                                            *)
(***************************************************************************)
\* The most input channels, the greatest value, the most values of a channel.
MaxChans == 3
MaxVal == 2
MaxChanLen == 2

\* a comes before b in the sort order.
Before(a, b) == IF csOrder = "asc" THEN a < b ELSE a > b

\* PriorityQ.Pop: the places of the items that no other item comes before.
PopPlaces(h) == {k \in 1..Len(h) : \A j \in 1..Len(h) : ~Before(h[j].Val, h[k].Val)}

\* The queue without the item at place k.
Without(h, k) == SubSeq(h, 1, k - 1) \o SubSeq(h, k + 1, Len(h))

\* The channel after the one the item came from.
NameOfNext(it) == (it.Name + 1) % Cardinality(DOMAIN csGiven)

\* idx := it.Name, the channel to read next.
NameOf(it) == it.Name

\* A receive from channel c does not block: its producer sends or has
\* closed it.
CsReady(c) == csLeft[c] # <<>> \/ c \in csClosed

\* The top of the for loop over queue h: return when it is empty, else pop
\* an item to send.
CsLoopTop(h) ==
    /\ csI' = csI
    /\ IF h = <<>>
       THEN csPc' = "closed" /\ csCur' = None /\ csHeap' = h
       ELSE \E k \in PopPlaces(h) :
               csPc' = "send" /\ csCur' = h[k] /\ csHeap' = Without(h, k)

\* The last loop over queue h, at index i: for i := 0; i < heap.Len(); i++
CsDrain(h, i) ==
    /\ csI' = i
    /\ IF i < Len(h)
       THEN \E k \in PopPlaces(h) :
               csPc' = "drain" /\ csCur' = h[k] /\ csHeap' = Without(h, k)
       ELSE csPc' = "closed" /\ csCur' = None /\ csHeap' = h

\* The queue h after the receive from channel idx in the first loop.
CsPushed(h, idx) ==
    IF csLeft[idx] # <<>>
    THEN Append(h, [Val |-> Head(csLeft[idx]), Name |-> idx])
    ELSE h

\* A first loop that returns when it finds a channel closed.
CsFirstRecvReturns(idx) ==
    /\ csPc = "first"
    /\ idx \in csTodo
    /\ CsReady(idx)
    /\ csTodo' = csTodo \ {idx}
    /\ csLeft' = [csLeft EXCEPT ![idx] = IF @ # <<>> THEN Tail(@) ELSE @]
    /\ IF csLeft[idx] = <<>>
       THEN csPc' = "closed" /\ csCur' = None /\ csHeap' = csHeap /\ csI' = csI
       ELSE IF csTodo' = {}
       THEN CsLoopTop(CsPushed(csHeap, idx))
       ELSE /\ csHeap' = CsPushed(csHeap, idx)
            /\ UNCHANGED <<csPc, csCur, csI>>
    /\ UNCHANGED <<csOrder, csGiven, csClosed, csActive, csOut>>
    /\ UNCHANGED notChain

\* The first loop: v, ok := <-c for a channel of activeChans; the value is
\* pushed, a closed channel is passed over.  After the last channel the for
\* loop begins.
CsFirstRecv(idx) ==
    /\ csPc = "first"
    /\ idx \in csTodo
    /\ CsReady(idx)
    /\ csTodo' = csTodo \ {idx}
    /\ csLeft' = [csLeft EXCEPT ![idx] = IF @ # <<>> THEN Tail(@) ELSE @]
    /\ IF csTodo' = {}
       THEN CsLoopTop(CsPushed(csHeap, idx))
       ELSE /\ csHeap' = CsPushed(csHeap, idx)
            /\ UNCHANGED <<csPc, csCur, csI>>
    /\ UNCHANGED <<csOrder, csGiven, csClosed, csActive, csOut>>
    /\ UNCHANGED notChain

\* result <- it.GetVal(): the consumer receives the value.  In the for loop
\* the channel the item came from is read next, if activeChans has it; in
\* the last loop the next item is popped.
CsSend ==
    /\ csPc \in {"send", "drain"}
    /\ csOut' = Append(csOut, csCur.Val)
    /\ IF csPc = "drain"
       THEN CsDrain(csHeap, csI + 1)
       ELSE IF NameOf(csCur) \in csActive
       THEN csPc' = "recv" /\ UNCHANGED <<csCur, csHeap, csI>>
       ELSE CsLoopTop(csHeap)
    /\ UNCHANGED <<csOrder, csGiven, csLeft, csClosed, csTodo, csActive>>
    /\ UNCHANGED notChain

\* v, ok := <-ch in the for loop: the value is pushed; a closed channel is
\* deleted from activeChans, and when that leaves none the last loop begins.
CsRecv ==
    /\ csPc = "recv"
    /\ CsReady(NameOf(csCur))
    /\ csLeft' = [csLeft EXCEPT ![NameOf(csCur)] = IF @ # <<>> THEN Tail(@) ELSE @]
    /\ csActive' = IF csLeft[NameOf(csCur)] # <<>> THEN csActive
                   ELSE csActive \ {NameOf(csCur)}
    /\ IF csLeft[NameOf(csCur)] = <<>> /\ csActive' = {}
       THEN CsDrain(csHeap, 0)
       ELSE CsLoopTop(CsPushed(csHeap, NameOf(csCur)))
    /\ UNCHANGED <<csOrder, csGiven, csClosed, csTodo, csOut>>
    /\ UNCHANGED notChain

\* A producer that has sent all its values closes its channel.
CsProducerClose(c) ==
    /\ c \in DOMAIN csLeft
    /\ csLeft[c] = <<>>
    /\ c \notin csClosed
    /\ csClosed' = csClosed \cup {c}
    /\ UNCHANGED <<csOrder, csGiven, csLeft, csTodo, csActive, csHeap, csCur, csPc,
                   csI, csOut>>
    /\ UNCHANGED notChain

\* CombineSortedChain(sortOrder, chans...) has returned the result channel.
InitChain ==
    /\ X509Off
    /\ Cmd2Off
    /\ JournalOff
    /\ SignalOff
    /\ FnOff
    /\ CmdOff
    /\ KafkaOff
    /\ ThrottleOff
    /\ csOrder \in {"asc", "desc"}
    /\ \E k \in 2..MaxChans :
          /\ csGiven \in [0..(k - 1) -> SeqsUpTo(1..MaxVal, MaxChanLen)]
          /\ csTodo = 0..(k - 1)
          /\ csActive = 0..(k - 1)
    /\ csLeft = csGiven
    /\ csClosed = {}
    /\ csHeap = <<>>
    /\ csCur = None
    /\ csPc = "first"
    /\ csI = 0
    /\ csOut = <<>>

NextChain ==
    \/ \E idx \in 0..(MaxChans - 1) : CsFirstRecv(idx)
    \/ CsSend
    \/ CsRecv
    \/ \E c \in 0..(MaxChans - 1) : CsProducerClose(c)

SpecChain == InitChain /\ [][NextChain]_vars

\* The sequence is in the sort order, equal neighbours allowed.
InOrder(q) == \A i \in 1..(Len(q) - 1) : ~Before(q[i + 1], q[i])

(***************************************************************************)
(* C23: if every input channel given to CombineSortedChain delivers its     *)
(* values in the given sort order, the values received from the returned    *)
(* channel are in that sort order (equal values allowed).                   *)
(***************************************************************************)
C23_MergedInOrder ==
    (\A c \in DOMAIN csGiven : InOrder(csGiven[c])) => InOrder(csOut)

\* Three channels in ascending order, 1 2, 2 2 and 1, were merged to
\* 1 1 2 2 2 and the result was closed.
C23_Witness ==
    /\ csOrder = "asc"
    /\ DOMAIN csGiven = {0, 1, 2}
    /\ csGiven[0] = <<1, 2>> /\ csGiven[1] = <<2, 2>> /\ csGiven[2] = <<1>>
    /\ csOut = <<1, 1, 2, 2, 2>>
    /\ csPc = "closed"

\* How often v occurs in q.
Occurs(q, v) == Cardinality({i \in 1..Len(q) : q[i] = v})

RECURSIVE SentOf(_, _)
\* How often v was sent on the channels of C: on each, what it was given
\* less what it has left.
SentOf(C, v) ==
    IF C = {} THEN 0
    ELSE Only({ Occurs(csGiven[c], v) - Occurs(csLeft[c], v) + SentOf(C \ {c}, v) :
                c \in {CHOOSE d \in C : TRUE} })

MaxSignals == 3

Signals == {"SIGTERM", "SIGINT", "SIGHUP"}

\* closeSignals: []os.Signal{syscall.SIGTERM, syscall.SIGINT}
DefaultCloseSignals == {"SIGTERM", "SIGINT"}

\* signal.Notify(c, syscall.SIGTERM, syscall.SIGINT)
Notified(closeSignals) == {"SIGTERM", "SIGINT"}

\* The operating system delivers signal s to the program.
Signal(s) ==
    /\ sigProc = "running"
    /\ sigSent < MaxSignals
    /\ sigSent' = sigSent + 1
    /\ sigGot' = IF s \in sigClose THEN sigGot + 1 ELSE sigGot
    /\ sigC' = IF s \in sigNotified /\ sigC = <<>> THEN <<s>> ELSE sigC
    /\ sigProc' = IF s \in sigNotified THEN sigProc ELSE "killed"
    /\ UNCHANGED <<sigClose, sigNotified, sigStop, sigPc>>
    /\ UNCHANGED notSignal

\* <-c in the goroutine.
SigRecv ==
    /\ sigProc = "running"
    /\ sigPc = "wait"
    /\ sigC # <<>>
    /\ sigC' = <<>>
    /\ sigPc' = "close"
    /\ UNCHANGED <<sigClose, sigNotified, sigStop, sigProc, sigGot, sigSent>>
    /\ UNCHANGED notSignal

\* close(stop), after which the goroutine ends.
SigCloseStop ==
    /\ sigProc = "running"
    /\ sigPc = "close"
    /\ sigStop' = "closed"
    /\ sigPc' = "done"
    /\ UNCHANGED <<sigClose, sigNotified, sigC, sigProc, sigGot, sigSent>>
    /\ UNCHANGED notSignal

\* StopSignal(optfs...) has returned the stop channel.
InitSignal ==
    /\ X509Off
    /\ Cmd2Off
    /\ JournalOff
    /\ FnOff
    /\ CmdOff
    /\ KafkaOff
    /\ ThrottleOff
    /\ ChainOff
    /\ sigClose \in {DefaultCloseSignals} \cup (SUBSET Signals \ {{}})
    /\ sigNotified = Notified(sigClose)
    /\ sigC = <<>>
    /\ sigStop = "open"
    /\ sigPc = "wait"
    /\ sigProc = "running"
    /\ sigGot = 0
    /\ sigSent = 0

NextSignal ==
    \/ \E s \in Signals : Signal(s)
    \/ SigRecv
    \/ SigCloseStop

SpecSignal == InitSignal /\ [][NextSignal]_vars

(***************************************************************************)
(* C27: the channel returned by StopSignal stays open until the first of    *)
(* the registered close signals is received, and is closed when it is (the  *)
(* stop channel is closed or the goroutine has a step to take); once a      *)
(* second such signal has been received the program is terminated with      *)
(* exit code 1.                                                             *)
(***************************************************************************)
C27_ClosedOnFirstExitOnSecond ==
    sigClose # {} =>
       /\ sigGot = 0 => sigStop = "open"
       /\ (sigGot >= 1 /\ sigProc = "running") =>
             (sigStop = "closed" \/ ENABLED (SigRecv \/ SigCloseStop))
       /\ sigGot >= 2 => sigProc = "exit1"

(***************************************************************************)
(* PrepareNewBufFile of package journal.  A file name yyyymmdd_nnnnnnnn.buf *)
(* or .ids is its day, its index and its extension; names of one length     *)
(* compare as strings the way day and index compare.  An open file is the   *)
(* name it was opened with.                                                 *)
(***************************************************************************)
\* The days and the greatest index of the files found in the directory.
MaxDay == 2
MaxIdx == 2

FName(day, idx, ext) == [day |-> day, idx |-> idx, ext |-> ext]

\* fname > latestDataFName, absFname < oldFileStat.NextDataFp.Name()
FNameLess(a, b) == a.day < b.day \/ (a.day = b.day /\ a.idx < b.idx)

\* DataFileNameReg and IdFileNameReg
DirNames(ext) == { FName(d, i, ext) : d \in 1..MaxDay, i \in 1..MaxIdx }

\* GenerateNewBufFName: the first name of today when the old name is more
\* than a day old, else the old name with the next index.
GenerateNewBufFName(today, oldFName) ==
    IF today > oldFName.day THEN FName(today, 1, oldFName.ext)
    ELSE FName(oldFName.day, oldFName.idx + 1, oldFName.ext)

\* The scan of the directory: the files of the extension that are older
\* than the next file of oldFileStat, if it has one.
OldFnames(dir, ext, oldNext) ==
    { f \in dir : f.ext = ext /\ (oldNext = Nil \/ FNameLess(f, oldNext)) }

\* The greatest of the names, for a set that has one.
Latest(names) == CHOOSE f \in names : \A g \in names : ~FNameLess(f, g)

\* The names of the new and the next file of one extension.
NewAndNext(names, ext, oldNext, today) ==
    IF names = {}
    THEN [new |-> FName(today, 1, ext), next |-> FName(today, 2, ext)]
    ELSE IF oldNext # Nil
    THEN [new |-> oldNext, next |-> GenerateNewBufFName(today, oldNext)]
    ELSE [new |-> GenerateNewBufFName(today, Latest(names)),
          next |-> GenerateNewBufFName(today,
                      GenerateNewBufFName(today, Latest(names)))]

\* PrepareNewBufFile(dirPath, oldFileStat) up to its return statement: it
\* returns nil and an error when the directory cannot be listed or a new
\* file cannot be opened, nil and no error when a listed file is gone, and
\* else starts the goroutine that opens the next files.
JfPrepare(listed, vanished, dataOpens, idsOpens) ==
    /\ jfPc = "call"
    /\ IF ~listed
       THEN /\ jfRet' = Nil /\ jfErr' = Err("try to list dir got error")
            /\ jfPc' = "returned" /\ jfSeen' = Nil
            /\ UNCHANGED <<jfDir, jfNext, jfGo>>
       ELSE IF vanished /\ jfDir # {}
       THEN /\ jfRet' = Nil /\ jfErr' = Nil
            /\ jfPc' = "returned" /\ jfSeen' = Nil
            /\ UNCHANGED <<jfDir, jfNext, jfGo>>
       ELSE IF jfOld.NextDataFp = Nil /\ ~dataOpens
       THEN /\ jfRet' = Nil /\ jfErr' = Err("open file got error")
            /\ jfPc' = "returned" /\ jfSeen' = Nil
            /\ UNCHANGED <<jfDir, jfNext, jfGo>>
       ELSE IF jfOld.NextIdsDataFp = Nil /\ ~idsOpens
       THEN /\ jfRet' = Nil /\ jfErr' = Err("open file got error")
            /\ jfPc' = "returned" /\ jfSeen' = Nil
            /\ jfDir' = jfDir \cup
                  (IF jfOld.NextDataFp # Nil THEN {}
                   ELSE {NewAndNext(OldFnames(jfDir, "buf", Nil), "buf", Nil, jfNow).new})
            /\ UNCHANGED <<jfNext, jfGo>>
       ELSE /\ jfRet' =
                 [OldDataFnames |-> OldFnames(jfDir, "buf", jfOld.NextDataFp),
                  OldIdsDataFname |-> OldFnames(jfDir, "ids", jfOld.NextIdsDataFp),
                  NewDataFp |->
                     NewAndNext(OldFnames(jfDir, "buf", jfOld.NextDataFp), "buf",
                                jfOld.NextDataFp, jfNow).new,
                  NewIdsDataFp |->
                     NewAndNext(OldFnames(jfDir, "ids", jfOld.NextIdsDataFp), "ids",
                                jfOld.NextIdsDataFp, jfNow).new,
                  NextDataFp |-> Nil,
                  NextIdsDataFp |-> Nil]
            /\ jfDir' = jfDir \cup {jfRet'.NewDataFp, jfRet'.NewIdsDataFp}
            /\ jfNext' =
                 [data |-> NewAndNext(OldFnames(jfDir, "buf", jfOld.NextDataFp), "buf",
                                      jfOld.NextDataFp, jfNow).next,
                  ids |-> NewAndNext(OldFnames(jfDir, "ids", jfOld.NextIdsDataFp), "ids",
                                     jfOld.NextIdsDataFp, jfNow).next]
            /\ jfErr' = Nil
            /\ jfPc' = "spawned"
            /\ jfGo' = "data"
            /\ jfSeen' = None
    /\ UNCHANGED <<jfOld, jfNow>>
    /\ UNCHANGED notJournal

\* return ret, nil: the caller has the BufFileStat.
JfReturn ==
    /\ jfPc = "spawned"
    /\ jfPc' = "returned"
    /\ jfSeen' = jfRet
    /\ UNCHANGED <<jfDir, jfOld, jfNow, jfRet, jfErr, jfNext, jfGo>>
    /\ UNCHANGED notJournal

\* The goroutine: ret.NextDataFp, err = OpenBufFile(nextDataFName), and
\* ret.NextDataFp = nil after an error.
JfOpenNextData(opens) ==
    /\ jfGo = "data"
    /\ jfRet' = [jfRet EXCEPT !.NextDataFp = IF opens THEN jfNext.data ELSE Nil]
    /\ jfErr' = IF opens THEN Nil ELSE Err("open file got error")
    /\ jfDir' = IF opens THEN jfDir \cup {jfNext.data} ELSE jfDir
    /\ jfGo' = "ids"
    /\ UNCHANGED <<jfOld, jfNow, jfNext, jfPc, jfSeen>>
    /\ UNCHANGED notJournal

\* The goroutine: ret.NextIdsDataFp, err = OpenBufFile(nextIDsFName), and
\* ret.NewIdsDataFp = nil after an error.
JfOpenNextIds(opens) ==
    /\ jfGo = "ids"
    /\ jfRet' = IF opens THEN [jfRet EXCEPT !.NextIdsDataFp = jfNext.ids]
                ELSE [jfRet EXCEPT !.NextIdsDataFp = Nil, !.NewIdsDataFp = Nil]
    /\ jfErr' = IF opens THEN Nil ELSE Err("open file got error")
    /\ jfDir' = IF opens THEN jfDir \cup {jfNext.ids} ELSE jfDir
    /\ jfGo' = "done"
    /\ UNCHANGED <<jfOld, jfNow, jfNext, jfPc, jfSeen>>
    /\ UNCHANGED notJournal

\* The directory holds some buffer files; oldFileStat is empty or has the
\* next files of an earlier call, which are in the directory.
InitJournal ==
    /\ X509Off
    /\ Cmd2Off
    /\ FnOff
    /\ CmdOff
    /\ KafkaOff
    /\ ThrottleOff
    /\ ChainOff
    /\ SignalOff
    /\ jfDir \in SUBSET (DirNames("buf") \cup DirNames("ids"))
    /\ \E d \in {Nil} \cup {f \in jfDir : f.ext = "buf"},
          i \in {Nil} \cup {f \in jfDir : f.ext = "ids"} :
          jfOld = [NextDataFp |-> d, NextIdsDataFp |-> i]
    /\ jfNow \in MaxDay..(MaxDay + 1)
    /\ jfRet = None
    /\ jfErr = Nil
    /\ jfNext = None
    /\ jfPc = "call"
    /\ jfGo = "off"
    /\ jfSeen = None

NextJournal ==
    \/ \E listed, vanished, dataOpens, idsOpens \in BOOLEAN :
          JfPrepare(listed, vanished, dataOpens, idsOpens)
    \/ JfReturn
    \/ \E opens \in BOOLEAN : JfOpenNextData(opens)
    \/ \E opens \in BOOLEAN : JfOpenNextIds(opens)

SpecJournal == InitJournal /\ [][NextJournal]_vars

(***************************************************************************)
(* C28: no field of the BufFileStat returned by PrepareNewBufFile is        *)
(* written after the function has returned: the caller sees NextDataFp and  *)
(* NextIdsDataFp in their final state, and NewDataFp and NewIdsDataFp are   *)
(* as they were returned, whatever happens when the next files are opened.  *)
(***************************************************************************)
C28_ReturnedStatIsFinal ==
    (jfPc = "returned" /\ jfSeen # None /\ jfSeen # Nil) =>
       /\ jfRet.NextDataFp = jfSeen.NextDataFp
       /\ jfRet.NextIdsDataFp = jfSeen.NextIdsDataFp
       /\ jfRet.NewDataFp = jfSeen.NewDataFp
       /\ jfRet.NewIdsDataFp = jfSeen.NewIdsDataFp
       /\ jfRet.OldDataFnames = jfSeen.OldDataFnames
       /\ jfRet.OldIdsDataFname = jfSeen.OldIdsDataFname

(***************************************************************************)
(* RunCMD2.  The subprocess writes whole lines to its stdout and stderr;    *)
(* a read of a pipe takes some of the lines in it into the buffer of the    *)
(* scanner, and Scan returns the buffered lines one at a time.  cmd.Wait    *)
(* returns when the subprocess has exited and closes the read ends of the   *)
(* pipes made by StdoutPipe and StderrPipe; a read of a closed pipe is an   *)
(* error, which ends the scanning.                                          *)
(***************************************************************************)
\* The most lines the subprocess writes to one stream.
MaxLines == 2

Streams == {"stdout", "stderr"}
Lines == {"a", "b"}

\* cmd.Start(): the subprocess runs and the two goroutines are started, or
\* RunCMD2 returns the error.
R2Start(started) ==
    /\ r2Pc = "start"
    /\ r2Pc' = IF started THEN "wait" ELSE "returned"
    /\ r2Proc' = IF started THEN "running" ELSE "none"
    /\ r2Reader' = [s \in Streams |-> IF started THEN "scan" ELSE "off"]
    /\ UNCHANGED <<r2Script, r2Sent, r2Pipe, r2Buf, r2Handled, r2Closed, r2Late>>
    /\ UNCHANGED notCmd2

\* The subprocess writes its next line to stream s.
R2ProcWrite(s) ==
    /\ r2Proc = "running"
    /\ Len(r2Sent[s]) < Len(r2Script[s])
    /\ r2Sent' = [r2Sent EXCEPT ![s] = Append(@, r2Script[s][Len(@) + 1])]
    /\ r2Pipe' = [r2Pipe EXCEPT ![s] = Append(@, r2Script[s][Len(r2Sent[s]) + 1])]
    /\ UNCHANGED <<r2Script, r2Buf, r2Handled, r2Proc, r2Closed, r2Reader, r2Pc, r2Late>>
    /\ UNCHANGED notCmd2

\* The subprocess exits after its last line.
R2ProcExit ==
    /\ r2Proc = "running"
    /\ \A s \in Streams : r2Sent[s] = r2Script[s]
    /\ r2Proc' = "exited"
    /\ UNCHANGED <<r2Script, r2Sent, r2Pipe, r2Buf, r2Handled, r2Closed, r2Reader,
                   r2Pc, r2Late>>
    /\ UNCHANGED notCmd2

\* ctx is done and exec.CommandContext kills the subprocess.
R2CtxKill ==
    /\ r2Proc = "running"
    /\ r2Proc' = "killed"
    /\ UNCHANGED <<r2Script, r2Sent, r2Pipe, r2Buf, r2Handled, r2Closed, r2Reader,
                   r2Pc, r2Late>>
    /\ UNCHANGED notCmd2

\* stdoutHandler(out), stderrHandler(out): one more call after the return
\* when RunCMD2 has returned.
R2Handler(out) == IF r2Pc = "returned" THEN r2Late + 1 ELSE r2Late

\* scanner.Scan() with a line in the buffer: the line is passed to the
\* handler.
R2ScanLine(s) ==
    /\ r2Reader[s] = "scan"
    /\ r2Buf[s] # <<>>
    /\ r2Buf' = [r2Buf EXCEPT ![s] = Tail(@)]
    /\ r2Handled' = [r2Handled EXCEPT ![s] = Append(@, Head(r2Buf[s]))]
    /\ r2Late' = R2Handler(Head(r2Buf[s]))
    /\ UNCHANGED <<r2Script, r2Sent, r2Pipe, r2Proc, r2Closed, r2Reader, r2Pc>>
    /\ UNCHANGED notCmd2

\* scanner.Scan() with an empty buffer reads the pipe: k of the lines in
\* it.
R2Read(s, k) ==
    /\ r2Reader[s] = "scan"
    /\ r2Buf[s] = <<>>
    /\ ~r2Closed
    /\ k \in 1..Len(r2Pipe[s])
    /\ r2Buf' = [r2Buf EXCEPT ![s] = SubSeq(r2Pipe[s], 1, k)]
    /\ r2Pipe' = [r2Pipe EXCEPT ![s] = SubSeq(@, k + 1, Len(@))]
    /\ UNCHANGED <<r2Script, r2Sent, r2Handled, r2Proc, r2Closed, r2Reader, r2Pc, r2Late>>
    /\ UNCHANGED notCmd2

\* scanner.Scan() returns false: the pipe is at its end, or its read end
\* was closed.  The goroutine ends.
R2ScanEnds(s) ==
    /\ r2Reader[s] = "scan"
    /\ r2Buf[s] = <<>>
    /\ IF r2Closed THEN TRUE
       ELSE r2Pipe[s] = <<>> /\ r2Proc \in {"exited", "killed"}
    /\ r2Reader' = [r2Reader EXCEPT ![s] = "done"]
    /\ UNCHANGED <<r2Script, r2Sent, r2Pipe, r2Buf, r2Handled, r2Proc, r2Closed, r2Pc,
                   r2Late>>
    /\ UNCHANGED notCmd2

\* cmd.Wait() returns, having closed the pipes, and RunCMD2 returns.
R2WaitReturn ==
    /\ r2Pc = "wait"
    /\ r2Proc \in {"exited", "killed"}
    /\ r2Closed' = TRUE
    /\ r2Pc' = "returned"
    /\ UNCHANGED <<r2Script, r2Sent, r2Pipe, r2Buf, r2Handled, r2Proc, r2Reader, r2Late>>
    /\ UNCHANGED notCmd2

\* RunCMD2 was called and has made the pipes.
InitCmd2 ==
    /\ X509Off
    /\ FnOff
    /\ CmdOff
    /\ KafkaOff
    /\ ThrottleOff
    /\ ChainOff
    /\ SignalOff
    /\ JournalOff
    /\ r2Script \in [Streams -> SeqsUpTo(Lines, MaxLines)]
    /\ r2Sent = [s \in Streams |-> <<>>]
    /\ r2Pipe = [s \in Streams |-> <<>>]
    /\ r2Buf = [s \in Streams |-> <<>>]
    /\ r2Handled = [s \in Streams |-> <<>>]
    /\ r2Proc = "none"
    /\ r2Closed = FALSE
    /\ r2Reader = [s \in Streams |-> "off"]
    /\ r2Pc = "start"
    /\ r2Late = 0

NextCmd2 ==
    \/ \E started \in BOOLEAN : R2Start(started)
    \/ \E s \in Streams : R2ProcWrite(s)
    \/ R2ProcExit
    \/ R2CtxKill
    \/ \E s \in Streams : R2ScanLine(s)
    \/ \E s \in Streams, k \in 1..MaxLines : R2Read(s, k)
    \/ \E s \in Streams : R2ScanEnds(s)
    \/ R2WaitReturn

SpecCmd2 == InitCmd2 /\ [][NextCmd2]_vars

(***************************************************************************)
(* C29: when RunCMD2 has returned, every line the subprocess wrote to       *)
(* stdout and to stderr has been passed to the matching handler exactly     *)
(* once, and no handler is called after RunCMD2 has returned.               *)
(***************************************************************************)
C29_AllLinesHandledBeforeReturn ==
    (r2Pc = "returned" /\ r2Proc # "none") =>
       /\ \A s \in Streams : r2Handled[s] = r2Sent[s]
       /\ r2Late = 0

(***************************************************************************)
(* OIDContains.  An object identifier is the sequence of its arcs; its      *)
(* String() is the decimal numbers of the arcs joined by dots.              *)
(***************************************************************************)
\* The most arcs of an object identifier and the most identifiers given.
MaxArcs == 2
MaxOids == 2

\* The arcs: two of one digit, and one that begins with the digit of
\* another.
Arcs == {1, 2, 12}

RECURSIVE Itoa(_)
\* strconv's decimal number of a natural number, as characters.
Itoa(k) ==
    IF k < 10 THEN << <<"0", "1", "2", "3", "4", "5", "6", "7", "8", "9">>[k + 1] >>
    ELSE Itoa(k \div 10) \o Itoa(k % 10)

RECURSIVE OidString(_)
\* asn1.ObjectIdentifier.String()
OidString(oid) ==
    IF oid = <<>> THEN <<>>
    ELSE IF Len(oid) = 1 THEN Itoa(oid[1])
    ELSE OidString(SubSeq(oid, 1, Len(oid) - 1)) \o <<".">> \o Itoa(oid[Len(oid)])

\* strings.HasPrefix
HasPrefix(str, prefix) ==
    Len(prefix) <= Len(str) /\ SubSeq(str, 1, Len(prefix)) = prefix

RECURSIVE OIDContainsFrom(_, _, _, _)
\* OIDContains: the loop over oids from index i on.
OIDContainsFrom(oids, oid, prefix, i) ==
    IF i > Len(oids) THEN FALSE
    ELSE IF oids[i] = oid THEN TRUE
    ELSE IF prefix /\ HasPrefix(OidString(oids[i]), OidString(oid)) THEN TRUE
    ELSE OIDContainsFrom(oids, oid, prefix, i + 1)

\* OIDContains(oids, oid) and OIDContains(oids, oid, MatchPrefix())
OIDContains(oids, oid, prefix) == OIDContainsFrom(oids, oid, prefix, 1)

CallOIDContains ==
    /\ fn = None
    /\ \E oids \in SeqsUpTo(SeqsUpTo(Arcs, MaxArcs), MaxOids),
          oid \in SeqsUpTo(Arcs, MaxArcs), prefix \in BOOLEAN :
          fn' = [op |-> "OIDContains", oids |-> oids, oid |-> oid, prefix |-> prefix,
                 out |-> OIDContains(oids, oid, prefix)]
    /\ UNCHANGED notFn

InitContains ==
    X509Off /\ FnOff /\ CmdOff /\ KafkaOff /\ ThrottleOff /\ ChainOff /\ SignalOff
       /\ JournalOff /\ Cmd2Off

NextContains == CallOIDContains

SpecContains == InitContains /\ [][NextContains]_vars

\* The first arcs of b are the arcs of a.
ArcsBegin(b, a) == Len(a) <= Len(b) /\ \A i \in 1..Len(a) : b[i] = a[i]

(***************************************************************************)
(* C30: OIDContains(oids, oid) returns true exactly when some element of    *)
(* oids equals oid or, with the MatchPrefix option, when some element of    *)
(* oids begins with all the arcs of oid taken as whole arcs; in every other *)
(* case it returns false.                                                   *)
(***************************************************************************)
C30_ContainsIsEqualOrArcPrefix ==
    (fn # None /\ fn.op = "OIDContains") =>
       fn.out = \E i \in 1..Len(fn.oids) :
                   \/ fn.oids[i] = fn.oid
                   \/ fn.prefix /\ ArcsBegin(fn.oids[i], fn.oid)

====
